---------------------------- MODULE Spec2Model ----------------------------
(***************************************************************************)
(* Model of the Stage coordination server of Audiolyze                     *)
(* (src/backend/api/rooms.py): the user and room registries, the message   *)
(* dispatcher of room_websocket and the room cleanup helpers.              *)
(*                                                                         *)
(* One action is one inbound message handled to completion (or one         *)
(* connect, disconnect cleanup, or REST upload).  Identifiers are minted   *)
(* from counters, so that an id is never issued twice, as with uuid4.      *)
(* Room objects that left the registry stay reachable through the local    *)
(* variables of the running handler (objs/reg below) and are dropped when  *)
(* the handler returns.                                                    *)
(***************************************************************************)
EXTENDS Integers, Sequences, FiniteSets, TLC

VARIABLES users, rooms, files, tasks, nextUser, nextRoom, nextFile, nextItem,
          sent, last, hist, budget, itemCap, broken, pc, detached

vars == <<users, rooms, files, tasks, nextUser, nextRoom, nextFile, nextItem,
          sent, last, hist, budget, itemCap, broken, pc, detached>>

(* ------------------------------ bounds -------------------------------- *)
\* connections ever accepted
MaxUsers == 3
\* rooms ever created
MaxRooms == 2
\* messages handled in a run (connects, disconnects and uploads included),
\* per specification
MaxOps == 9
MaxOpsUpload == 8
MaxOpsSync == 7
MaxOpsAuth == 3
\* queue items and suggestions ever created
MaxItems == 2
\* files ever uploaded
MaxFiles == 1
\* messages handled, and items and suggestions minted, on a stage that
\* starts with its host and one audience member
MaxOpsQueue == 4
MaxStageItems == 4
\* messages handled on a stage whose chat history is already long
MaxOpsChat == 3
\* messages handled on a stage whose audience suggests songs
MaxOpsSuggest == 5
\* messages handled on a stage whose events fan out to the members
MaxOpsFanout == 4
\* messages handled and transports lost on a stage with failing sends
MaxOpsBreak == 4
\* items queued on the stage before its queue is reordered, and messages
\* handled from there
MaxQueued == 5
MaxOpsReorder == 2
\* messages handled while the listing of the public rooms is followed
MaxOpsListing == 7
\* handler segments run (a segment is the code between two awaits) on a
\* stage whose handlers interleave
MaxOpsAsync == 6

(* ----------------------------- constants ------------------------------ *)
\* Python's None for an id-valued field (room_id, hosted_room_id)
None == 0
\* user_id of a system chat message ("system")
System == 0
\* messages[-50:] sent to a joiner
RecentCount == 50
\* active_queue[:3], the priority region
PriorityCount == 3
\* len(room.messages) > 200: the chat history cap
MaxMessages == 200
\* room.messages[-100:], what a truncation keeps
KeepMessages == 100

UserIds == 1..MaxUsers
RoomIds == 1..MaxRooms
FileIds == 1..MaxFiles
\* the item and suggestion ids a run can mint (itemCap of them)
ItemIds == 1..itemCap

(* ------------------------------ values -------------------------------- *)
NoSource == [type |-> "none", url |-> None]
NoSync == [set |-> FALSE, currentTime |-> 0, isPlaying |-> FALSE, playbackSpeed |-> 1]
ZeroSync == [set |-> TRUE, currentTime |-> 0, isPlaying |-> FALSE, playbackSpeed |-> 1]
NoVis == [set |-> FALSE, shape |-> "none", environment |-> "none",
          audioTuning |-> "none", audioPlaybackTuning |-> "none",
          anaglyphEnabled |-> "none"]

Max(a, b) == IF a >= b THEN a ELSE b

MinOf(S) == CHOOSE x \in S : \A y \in S : x <= y

RECURSIVE SortedSeq(_)
SortedSeq(S) == IF S = {} THEN <<>>
                ELSE LET m == MinOf(S) IN <<m>> \o SortedSeq(S \ {m})

NewUser == [name |-> "", room_id |-> None, is_host |-> FALSE,
            hosted_room_id |-> None, connected |-> TRUE]

NewRoom(u) == [host_id |-> u, name |-> "stage", is_public |-> FALSE,
               now_playing |-> "none", members |-> {u}, messages |-> <<>>,
               audio_source |-> NoSource, ai_params |-> "none",
               last_sync |-> NoSync, host_visualizer_state |-> NoVis,
               host_visiting |-> FALSE, queue |-> <<>>, suggestions |-> <<>>]

SysMsg(text, u) == [user_id |-> System, text |-> text, about |-> u,
                    is_host |-> FALSE, is_system |-> TRUE]

(* ----------------------------- serializers ---------------------------- *)
AudienceCount(room) ==
    Max(0, Cardinality(room.members) - (IF room.host_visiting THEN 0 ELSE 1))

_room_summary(rid, room) ==
    [id |-> rid, name |-> room.name, hostId |-> room.host_id,
     isPublic |-> room.is_public, nowPlaying |-> room.now_playing,
     audienceCount |-> AudienceCount(room)]

_hosted_room_summary(rid, room) ==
    [id |-> rid, name |-> room.name, nowPlaying |-> room.now_playing,
     audienceCount |-> AudienceCount(room), isPublic |-> room.is_public]

PendingSuggestions(room) ==
    SelectSeq(room.suggestions, LAMBDA s : s.status = "pending")

_room_full(rid, room) ==
    [id |-> rid, name |-> room.name, hostId |-> room.host_id,
     isPublic |-> room.is_public, nowPlaying |-> room.now_playing,
     audienceCount |-> AudienceCount(room),
     audioSource |-> room.audio_source, aiParams |-> room.ai_params,
     lastSync |-> room.last_sync,
     hostVisualizerState |-> room.host_visualizer_state,
     queue |-> room.queue, suggestions |-> PendingSuggestions(room)]

_queue_state(room) ==
    [queue |-> room.queue, suggestions |-> PendingSuggestions(room)]

_member_list(w, room) ==
    {[id |-> m, name |-> w.users[m].name, isHost |-> w.users[m].is_host] :
        m \in room.members}

Recent(msgs) ==
    SubSeq(msgs, Max(1, Len(msgs) - RecentCount + 1), Len(msgs))

PublicRooms(objs, reg) ==
    [r \in {x \in reg : objs[x].is_public} |-> _room_summary(r, objs[r])]

\* GET /rooms/public
list_public_rooms == PublicRooms(rooms, DOMAIN rooms)

(* ------------------------------ fan-out ------------------------------- *)
\* The state a handler works on: the User objects, the Room objects it can
\* reach (objs), the ids in the rooms dict (reg), the upload directory, the
\* envelopes sent so far, the scheduled background tasks, and the user whose
\* transport is closed (the one being cleaned up), if any.
World(closing) ==
    [users |-> users, objs |-> rooms, reg |-> DOMAIN rooms, files |-> files,
     sent |-> <<>>, tasks |-> tasks, closing |-> closing, broken |-> broken]

\* send_json is reached on a socket in the CONNECTED state and any exception
\* it raises is swallowed: w.closing is the connection whose dispatcher is
\* in its cleanup, w.broken the connections whose transport fails
_send(w, to, env) ==
    IF w.users[to].connected /\ to # w.closing /\ to \notin w.broken
    THEN [w EXCEPT !.sent = Append(@, [to |-> to, env |-> env])]
    ELSE w

RECURSIVE SendEach(_, _, _), SendEach_raising(_, _, _)
\* mutant: the exception of a failed send is not swallowed and ends the
\* loop over the recipients
SendEach_raising(w, tos, env) ==
    IF tos = <<>> \/ Head(tos) \in w.broken THEN w
    ELSE SendEach_raising(_send(w, Head(tos), env), Tail(tos), env)

SendEach(w, tos, env) ==
    IF tos = <<>> THEN w
    ELSE SendEach(_send(w, Head(tos), env), Tail(tos), env)

\* mutant: the envelope goes to every connected user, member or not
_broadcast_everyone(w, rid, env, exclude_id) ==
    SendEach(w, SortedSeq({u \in DOMAIN w.users : w.users[u].connected}
                              \ {exclude_id}), env)

_broadcast(w, rid, env, exclude_id) ==
    SendEach(w, SortedSeq(w.objs[rid].members \ {exclude_id}), env)

\* mutant: the host is not skipped
_broadcast_to_audience_all(w, rid, env) ==
    SendEach(w, SortedSeq(w.objs[rid].members), env)

_broadcast_to_audience(w, rid, env) ==
    SendEach(w, SortedSeq(w.objs[rid].members \ {w.objs[rid].host_id}), env)

InRegistry(w) == {u \in DOMAIN w.users : w.users[u].connected}

\* mutant: the listing goes only to the users who are in no room
_broadcast_public_rooms_lobby(w) ==
    SendEach(w, SortedSeq({u \in InRegistry(w) : w.users[u].room_id = None}),
             [type |-> "public_rooms", rooms |-> PublicRooms(w.objs, w.reg)])

_broadcast_public_rooms(w) ==
    SendEach(w, SortedSeq(InRegistry(w)),
             [type |-> "public_rooms", rooms |-> PublicRooms(w.objs, w.reg)])

_broadcast_queue(w, rid) ==
    _broadcast(w, rid, [type |-> "queue_update",
                        queue |-> w.objs[rid].queue,
                        suggestions |-> PendingSuggestions(w.objs[rid])], None)

(* -------------------------- cleanup helpers --------------------------- *)
UserLeftEnv(w, rid, u, msg) ==
    [type |-> "user_left", userId |-> u,
     members |-> _member_list(w, w.objs[rid]), systemMessage |-> msg]

_leave_visited_room(w, u) ==
    LET rid == w.users[u].room_id IN
    IF rid = None \/ rid \notin w.reg THEN w
    ELSE
      LET msg == SysMsg("left", u)
          w1 == [w EXCEPT !.objs[rid].members = @ \ {u},
                          !.objs[rid].messages = Append(@, msg)]
          w2 == _broadcast(w1, rid, UserLeftEnv(w1, rid, u, msg), None)
          w3 == IF w2.objs[rid].is_public THEN _broadcast_public_rooms(w2) ELSE w2
      IN [w3 EXCEPT !.users[u].room_id = None, !.users[u].is_host = FALSE]

\* for member in list(room.members.values()): clear the member, send room_closed
RECURSIVE CloseMembers(_, _, _)
CloseMembers(w, ms, reason) ==
    IF ms = <<>> THEN w
    ELSE LET m == Head(ms)
             w1 == [w EXCEPT !.users[m].room_id = None, !.users[m].is_host = FALSE]
         IN CloseMembers(_send(w1, m, [type |-> "room_closed", reason |-> reason]),
                         Tail(ms), reason)

\* mutant: the room is dropped without clearing or telling its members
_destroy_hosted_room_silent(w, u) ==
    LET rid == w.users[u].hosted_room_id IN
    IF rid = None \/ rid \notin w.reg
    THEN [w EXCEPT !.users[u].hosted_room_id = None]
    ELSE _broadcast_public_rooms(
             [w EXCEPT !.reg = @ \ {rid},
                       !.users[u].hosted_room_id = None,
                       !.users[u].room_id = None,
                       !.users[u].is_host = FALSE])

_destroy_hosted_room(w, u) ==
    LET rid == w.users[u].hosted_room_id IN
    IF rid = None \/ rid \notin w.reg
    THEN [w EXCEPT !.users[u].hosted_room_id = None]
    ELSE
      LET w1 == CloseMembers(w, SortedSeq(w.objs[rid].members), "Host ended the stage")
          w2 == [w1 EXCEPT !.reg = @ \ {rid},
                           !.users[u].hosted_room_id = None,
                           !.users[u].room_id = None,
                           !.users[u].is_host = FALSE]
      IN _broadcast_public_rooms(w2)

\* os.remove of the upload the room's audio source names, if it is a file
RemoveUpload(w, room) ==
    IF room.audio_source.type = "upload" /\ room.audio_source.url \in w.files
    THEN [w EXCEPT !.files = @ \ {room.audio_source.url}]
    ELSE w

_leave_room(w, u) ==
    LET rid == w.users[u].room_id IN
    IF rid = None \/ rid \notin w.reg
    THEN [w EXCEPT !.users[u].room_id = None, !.users[u].is_host = FALSE]
    ELSE
      LET was_host == (w.objs[rid].host_id = u)
          w1 == [w EXCEPT !.objs[rid].members = @ \ {u},
                          !.users[u].is_host = FALSE,
                          !.users[u].room_id = None]
          w5 ==
            IF was_host \/ w1.objs[rid].members = {}
            THEN
              LET w2 == RemoveUpload(w1, w1.objs[rid])
                  w3 == CloseMembers(w2, SortedSeq(w2.objs[rid].members),
                                     "Host left the stage")
                  w4 == [w3 EXCEPT !.reg = @ \ {rid},
                                   !.users[u].hosted_room_id =
                                       IF was_host THEN None ELSE @]
              IN _broadcast_public_rooms(w4)
            ELSE
              LET msg == SysMsg("left", u)
                  w2 == [w1 EXCEPT !.objs[rid].messages = Append(@, msg)]
                  w3 == _broadcast(w2, rid, UserLeftEnv(w2, rid, u, msg), None)
              IN IF w3.objs[rid].is_public THEN _broadcast_public_rooms(w3) ELSE w3
      IN _send(w5, u, [type |-> "left_room"])


(* --------------------- room_websocket: lifecycle ---------------------- *)
\* ws.accept(): a fresh User in the users dict, then the connected envelope
on_connect(w, u) ==
    LET w1 == [w EXCEPT !.users = [x \in DOMAIN @ \cup {u} |->
                                     IF x = u THEN NewUser ELSE @[x]]]
    IN _send(w1, u, [type |-> "connected", userId |-> u,
                     publicRooms |-> PublicRooms(w1.objs, w1.reg)])

on_set_username(w, u, name) ==
    LET old_name == w.users[u].name
        w1 == [w EXCEPT !.users[u].name = name]
        rid == w1.users[u].room_id
        w2 == IF rid # None /\ rid \in w1.reg
              THEN _broadcast(w1, rid, [type |-> "user_renamed", userId |-> u,
                                        oldName |-> old_name, newName |-> name,
                                        members |-> _member_list(w1, w1.objs[rid])],
                              None)
              ELSE w1
    IN _send(w2, u, [type |-> "username_set", name |-> name])

on_create_room(w, u, rid) ==
    LET usr == w.users[u]
        w1 == IF usr.room_id # None /\ usr.room_id \in w.reg
                 /\ usr.room_id # usr.hosted_room_id
              THEN _leave_visited_room(w, u) ELSE w
        w2 == IF w1.users[u].hosted_room_id # None
                 /\ w1.users[u].hosted_room_id \in w1.reg
              THEN _destroy_hosted_room(w1, u) ELSE w1
        w3 == [w2 EXCEPT !.objs = [x \in DOMAIN @ \cup {rid} |->
                                     IF x = rid THEN NewRoom(u) ELSE @[x]],
                         !.reg = @ \cup {rid},
                         !.users[u].room_id = rid,
                         !.users[u].is_host = TRUE,
                         !.users[u].hosted_room_id = rid]
    IN _send(w3, u, [type |-> "room_created",
                     room |-> _room_summary(rid, w3.objs[rid]),
                     members |-> _member_list(w3, w3.objs[rid]),
                     messages |-> <<>>])

UserJoinedEnv(w, t, u, msg) ==
    [type |-> "user_joined", userId |-> u,
     members |-> _member_list(w, w.objs[t]), systemMessage |-> msg]

\* mutant: visit mode that leaves the host in the hosted room's members
JoinVisit_HostStays(w, u, t) ==
    LET h == w.users[u].hosted_room_id
        msg == SysMsg("joined", u)
        w3 == [w EXCEPT !.users[u].room_id = t,
                        !.users[u].is_host = FALSE,
                        !.objs[t].members = @ \cup {u},
                        !.objs[t].messages = Append(@, msg)]
        w4 == _send(w3, u, [type |-> "room_joined",
                            room |-> _room_full(t, w3.objs[t]),
                            members |-> _member_list(w3, w3.objs[t]),
                            messages |-> Recent(w3.objs[t].messages),
                            hostedRoom |-> _hosted_room_summary(h, w3.objs[h])])
        w5 == _broadcast(w4, t, UserJoinedEnv(w4, t, u, msg), u)
    IN _broadcast_public_rooms(w5)

\* join_room, "visit" mode: the sender hosts another room of the registry
JoinVisit(w, u, t) ==
    LET usr == w.users[u]
        h == usr.hosted_room_id
        w1 == IF usr.room_id # None /\ usr.room_id # h /\ usr.room_id \in w.reg
              THEN _leave_visited_room(w, u) ELSE w
        w2 == [w1 EXCEPT !.objs[h].host_visiting = TRUE,
                         !.objs[h].members = @ \ {u}]
        msg == SysMsg("joined", u)
        w3 == [w2 EXCEPT !.users[u].room_id = t,
                         !.users[u].is_host = FALSE,
                         !.objs[t].members = @ \cup {u},
                         !.objs[t].messages = Append(@, msg)]
        w4 == _send(w3, u, [type |-> "room_joined",
                            room |-> _room_full(t, w3.objs[t]),
                            members |-> _member_list(w3, w3.objs[t]),
                            messages |-> Recent(w3.objs[t].messages),
                            hostedRoom |-> _hosted_room_summary(h, w3.objs[h])])
        w5 == _broadcast(w4, t, UserJoinedEnv(w4, t, u, msg), u)
    IN _broadcast_public_rooms(w5)

\* join_room, normal join
JoinNormal(w, u, t) ==
    LET usr == w.users[u]
        w1 == IF usr.room_id # None /\ usr.room_id \in w.reg
              THEN _leave_room(w, u) ELSE w
        msg == SysMsg("joined", u)
        w2 == [w1 EXCEPT !.users[u].room_id = t,
                         !.users[u].is_host = FALSE,
                         !.objs[t].members = @ \cup {u},
                         !.objs[t].messages = Append(@, msg)]
        w3 == _send(w2, u, [type |-> "room_joined",
                            room |-> _room_full(t, w2.objs[t]),
                            members |-> _member_list(w2, w2.objs[t]),
                            messages |-> Recent(w2.objs[t].messages)])
        w4 == _broadcast(w3, t, UserJoinedEnv(w3, t, u, msg), u)
    IN _broadcast_public_rooms(w4)

\* the visit-mode test of join_room
IsVisitJoin(w, u, t) ==
    /\ w.users[u].hosted_room_id # None
    /\ w.users[u].hosted_room_id \in w.reg
    /\ w.users[u].hosted_room_id # t

\* mutant: the privacy test is forgotten
JoinAllowed_NoPrivacy(w, t) == t \in w.reg

\* the test that lets a join_room through: the target exists and is public
JoinAllowed(w, t) == t \in w.reg /\ w.objs[t].is_public

on_join_room(w, u, t) ==
    IF ~JoinAllowed(w, t)
    THEN _send(w, u, [type |-> "error",
                      message |-> IF t \notin w.reg THEN "Room not found"
                                  ELSE "Room is private"])
    ELSE IF IsVisitJoin(w, u, t) THEN JoinVisit(w, u, t)
    ELSE JoinNormal(w, u, t)

on_return_to_room(w, u) ==
    LET usr == w.users[u]
        h == usr.hosted_room_id
    IN
    IF h = None \/ h \notin w.reg
    THEN _send(w, u, [type |-> "error", message |-> "No hosted room to return to"])
    ELSE
      LET w1 == IF usr.room_id # None /\ usr.room_id # h /\ usr.room_id \in w.reg
                THEN _leave_visited_room(w, u) ELSE w
          w2 == [w1 EXCEPT !.objs[h].host_visiting = FALSE,
                           !.objs[h].members = @ \cup {u},
                           !.users[u].room_id = h,
                           !.users[u].is_host = TRUE]
          w3 == _send(w2, u, [type |-> "returned_to_room",
                              room |-> _room_full(h, w2.objs[h]),
                              members |-> _member_list(w2, w2.objs[h]),
                              messages |-> Recent(w2.objs[h].messages),
                              needsAudioReload |-> TRUE])
      IN _broadcast_public_rooms(w3)

\* mutant: end_room answers without destroying the room
on_end_room_kept(w, u) ==
    LET h == w.users[u].hosted_room_id IN
    IF h = None \/ h \notin w.reg THEN w
    ELSE _send(w, u, [type |-> "hosted_room_ended"])

on_end_room(w, u) ==
    LET h == w.users[u].hosted_room_id IN
    IF h = None \/ h \notin w.reg THEN w
    ELSE _send(_destroy_hosted_room(w, u), u, [type |-> "hosted_room_ended"])

NoHostedSummary == [id |-> None]

on_go_to_menu(w, u) ==
    LET usr == w.users[u]
        h == usr.hosted_room_id
    IN
    IF h # None /\ h \in w.reg
    THEN
      LET w1 == [w EXCEPT !.objs[h].host_visiting = TRUE,
                          !.objs[h].members = @ \ {u},
                          !.users[u].room_id = None,
                          !.users[u].is_host = FALSE]
          w2 == _send(w1, u, [type |-> "went_to_menu",
                              hostedRoom |-> _hosted_room_summary(h, w1.objs[h])])
      IN _broadcast_public_rooms(w2)
    ELSE IF usr.room_id # None /\ h # None /\ usr.room_id # h
    THEN
      \* reached only with a hosted_room_id that is no longer in the registry
      LET w1 == IF usr.room_id \in w.reg THEN _leave_visited_room(w, u) ELSE w
          w2 == [w1 EXCEPT !.users[u].room_id = None,
                           !.users[u].is_host = FALSE]
          w3 == _send(w2, u, [type |-> "went_to_menu",
                              hostedRoom |-> NoHostedSummary])
      IN _broadcast_public_rooms(w3)
    ELSE _send(_leave_room(w, u), u, [type |-> "left_room"])

\* mutant: a visiting host who leaves the visited room ends on the menu
on_leave_room_to_menu(w, u) ==
    LET usr == w.users[u]
        h == usr.hosted_room_id
    IN
    IF h # None /\ usr.room_id = h THEN _leave_room(w, u)
    ELSE IF usr.room_id # None /\ usr.room_id # h
    THEN _send([_leave_visited_room(w, u) EXCEPT !.users[u].room_id = None,
                                                 !.users[u].is_host = FALSE],
               u, [type |-> "left_room"])
    ELSE _leave_room(w, u)

on_leave_room(w, u) ==
    LET usr == w.users[u]
        h == usr.hosted_room_id
    IN
    IF h # None /\ usr.room_id = h THEN _leave_room(w, u)
    ELSE IF usr.room_id # None /\ usr.room_id # h
    THEN
      LET w1 == _leave_visited_room(w, u) IN
      IF h # None /\ h \in w1.reg
      THEN
        LET w2 == [w1 EXCEPT !.objs[h].host_visiting = FALSE,
                             !.objs[h].members = @ \cup {u},
                             !.users[u].room_id = h,
                             !.users[u].is_host = TRUE]
        IN _send(w2, u, [type |-> "returned_to_room",
                         room |-> _room_full(h, w2.objs[h]),
                         members |-> _member_list(w2, w2.objs[h]),
                         messages |-> Recent(w2.objs[h].messages)])
      ELSE _send([w1 EXCEPT !.users[u].room_id = None,
                            !.users[u].is_host = FALSE],
                 u, [type |-> "left_room"])
    ELSE _leave_room(w, u)

\* finally: of room_websocket, after the transport closed
on_disconnect(w, u) ==
    LET usr == w.users[u]
        w1 == IF usr.room_id # None /\ usr.hosted_room_id # None
                 /\ usr.room_id # usr.hosted_room_id /\ usr.room_id \in w.reg
              THEN _leave_visited_room(w, u) ELSE w
        w2 == IF w1.users[u].hosted_room_id # None
                 /\ w1.users[u].hosted_room_id \in w1.reg
              THEN _destroy_hosted_room(w1, u) ELSE w1
        w3 == IF w2.users[u].room_id # None /\ w2.users[u].room_id \in w2.reg
              THEN _leave_room(w2, u) ELSE w2
    IN [w3 EXCEPT !.users[u].connected = FALSE]

(* ----------------------- host-only: the target ------------------------ *)
\* rid = user.hosted_room_id or user.room_id
TargetRoom(usr) ==
    IF usr.hosted_room_id # None THEN usr.hosted_room_id ELSE usr.room_id

\* mutant: any user whose target room exists passes for its host
IsHostOf_AnyUser(w, u) ==
    LET rid == TargetRoom(w.users[u]) IN
    /\ rid # None
    /\ rid \in w.reg

\* the two early returns every host-only handler starts with
IsHostOf(w, u) ==
    LET rid == TargetRoom(w.users[u]) IN
    /\ rid # None
    /\ rid \in w.reg
    /\ w.objs[rid].host_id = u

\* mutant: the flag is set instead of flipped
on_toggle_public_set(w, u) ==
    IF ~IsHostOf(w, u) THEN w
    ELSE
      LET rid == TargetRoom(w.users[u])
          w1 == [w EXCEPT !.objs[rid].is_public = TRUE]
          w2 == _broadcast(w1, rid, [type |-> "room_updated",
                                     room |-> _room_summary(rid, w1.objs[rid])], None)
          w3 == IF w2.users[u].room_id # rid
                THEN _send(w2, u, [type |-> "hosted_room_updated",
                                   hostedRoom |-> _hosted_room_summary(rid, w2.objs[rid])])
                ELSE w2
      IN _broadcast_public_rooms(w3)

on_toggle_public(w, u) ==
    IF ~IsHostOf(w, u) THEN w
    ELSE
      LET rid == TargetRoom(w.users[u])
          w1 == [w EXCEPT !.objs[rid].is_public = ~@]
          w2 == _broadcast(w1, rid, [type |-> "room_updated",
                                     room |-> _room_summary(rid, w1.objs[rid])], None)
          w3 == IF w2.users[u].room_id # rid
                THEN _send(w2, u, [type |-> "hosted_room_updated",
                                   hostedRoom |-> _hosted_room_summary(rid, w2.objs[rid])])
                ELSE w2
      IN _broadcast_public_rooms(w3)

(* -------------------- host-only: room and playback -------------------- *)
on_rename_room(w, u, new_name) ==
    IF new_name = "" \/ ~IsHostOf(w, u) THEN w
    ELSE
      LET rid == TargetRoom(w.users[u])
          w1 == [w EXCEPT !.objs[rid].name = new_name]
          w2 == _broadcast(w1, rid, [type |-> "room_updated",
                                     room |-> _room_summary(rid, w1.objs[rid])], None)
      IN IF w2.objs[rid].is_public THEN _broadcast_public_rooms(w2) ELSE w2

on_update_now_playing(w, u, np) ==
    IF ~IsHostOf(w, u) THEN w
    ELSE
      LET rid == TargetRoom(w.users[u])
          w1 == [w EXCEPT !.objs[rid].now_playing = np]
          w2 == _broadcast(w1, rid, [type |-> "room_updated",
                                     room |-> _room_summary(rid, w1.objs[rid])], None)
      IN IF w2.objs[rid].is_public THEN _broadcast_public_rooms(w2) ELSE w2

\* mutant: the snapshot and the visualizer state of the old track are kept
on_set_audio_source_no_reset(w, u, src, ai) ==
    IF ~IsHostOf(w, u) THEN w
    ELSE
      LET rid == TargetRoom(w.users[u])
          w1 == [w EXCEPT !.objs[rid].audio_source = src,
                          !.objs[rid].ai_params = ai]
      IN _broadcast_to_audience(w1, rid, [type |-> "audio_source",
                                          audioSource |-> src, aiParams |-> ai])

on_set_audio_source(w, u, src, ai) ==
    IF ~IsHostOf(w, u) THEN w
    ELSE
      LET rid == TargetRoom(w.users[u])
          w1 == [w EXCEPT !.objs[rid].audio_source = src,
                          !.objs[rid].ai_params = ai,
                          !.objs[rid].last_sync = ZeroSync,
                          !.objs[rid].host_visualizer_state = NoVis]
      IN _broadcast_to_audience(w1, rid, [type |-> "audio_source",
                                          audioSource |-> src, aiParams |-> ai])

\* mutant: the heartbeat is fanned out but not stored
on_sync_state_unstored(w, u, sync) ==
    IF ~IsHostOf(w, u) THEN w
    ELSE _broadcast_to_audience(w, TargetRoom(w.users[u]),
                                [type |-> "sync_state",
                                 currentTime |-> sync.currentTime,
                                 isPlaying |-> sync.isPlaying,
                                 playbackSpeed |-> sync.playbackSpeed])

on_sync_state(w, u, sync) ==
    IF ~IsHostOf(w, u) THEN w
    ELSE
      LET rid == TargetRoom(w.users[u])
          sync_data == [set |-> TRUE, currentTime |-> sync.currentTime,
                        isPlaying |-> sync.isPlaying,
                        playbackSpeed |-> sync.playbackSpeed]
          w1 == [w EXCEPT !.objs[rid].last_sync = sync_data]
      IN _broadcast_to_audience(w1, rid, [type |-> "sync_state",
                                          currentTime |-> sync.currentTime,
                                          isPlaying |-> sync.isPlaying,
                                          playbackSpeed |-> sync.playbackSpeed])

\* host_action: the slice of host_visualizer_state the action stores
VisAfter(vis, action, payload) ==
    LET v == [vis EXCEPT !.set = TRUE] IN
    CASE action = "shape_change" -> [v EXCEPT !.shape = payload]
      [] action = "environment_change" -> [v EXCEPT !.environment = payload]
      [] action = "eq_change" -> [v EXCEPT !.audioTuning = payload,
                                           !.audioPlaybackTuning = payload]
      [] action = "anaglyph_toggle" -> [v EXCEPT !.anaglyphEnabled = payload]
      [] OTHER -> vis

\* host_action: the slice of last_sync the action stores
SyncAfter(ls, action, payload) ==
    CASE action = "play_pause" ->
           IF ls.set THEN [ls EXCEPT !.isPlaying = payload]
           ELSE [ZeroSync EXCEPT !.isPlaying = payload]
      [] action = "seek" ->
           IF ls.set THEN [ls EXCEPT !.currentTime = payload] ELSE ls
      [] action = "speed_change" ->
           IF ls.set THEN [ls EXCEPT !.playbackSpeed = payload] ELSE ls
      [] OTHER -> ls

on_host_action(w, u, action, payload) ==
    IF ~IsHostOf(w, u) THEN w
    ELSE
      LET rid == TargetRoom(w.users[u])
          w1 == [w EXCEPT !.objs[rid].host_visualizer_state =
                              VisAfter(@, action, payload),
                          !.objs[rid].last_sync = SyncAfter(@, action, payload)]
      IN _broadcast_to_audience(w1, rid, [type |-> "host_action",
                                          action |-> action, payload |-> payload])

(* -------------------------- host-only: queue -------------------------- *)
\* asyncio.create_task(_predownload_priority_tracks(room))
SchedulePredownload(w, rid) == [w EXCEPT !.tasks = @ \cup {rid}]

\* item.url.startswith("/soundcloud/file/")
IsLocalUrl(url) == url = "/soundcloud/file/t.mp3"

\* [item for item in room.queue if item.status in ["playing", "priority"]][:3]
PriorityItems(queue) ==
    LET hits == {i \in 1..Len(queue) : queue[i].status \in {"playing", "priority"}}
    IN {i \in hits : Cardinality({j \in hits : j < i}) < PriorityCount}

\* the items of the queue the task posts a download request for
DownloadTargets(queue) ==
    {i \in PriorityItems(queue) :
        /\ queue[i].source = "soundcloud"
        /\ queue[i].soundcloud_url # ""
        /\ ~IsLocalUrl(queue[i].url)}

\* the background task, run to completion; ok holds the ids of the items
\* whose download answered 200 with ok, every other request failed
_predownload_priority_tracks(w, rid, ok) ==
    IF rid \notin w.reg THEN w
    ELSE
      LET queue == w.objs[rid].queue
          done == {i \in DownloadTargets(queue) : queue[i].id \in ok}
      IN [w EXCEPT !.objs[rid].queue =
             [i \in 1..Len(queue) |->
                 IF i \in done
                 THEN [queue[i] EXCEPT !.url = "/soundcloud/file/t.mp3"]
                 ELSE queue[i]]]

NewItem(id, title, source, url, by, sc_url) ==
    [id |-> id, title |-> title, source |-> source, url |-> url,
     added_by |-> by, status |-> "pending", ai_params |-> "none",
     soundcloud_url |-> sc_url, download_status |-> "pending"]

on_queue_add(w, u, id, in) ==
    IF ~IsHostOf(w, u) THEN w
    ELSE
      LET rid == TargetRoom(w.users[u])
          item == NewItem(id, in.title, in.source, in.url, u, in.soundcloudUrl)
          w1 == [w EXCEPT !.objs[rid].queue = Append(@, item)]
      IN SchedulePredownload(_broadcast_queue(w1, rid), rid)

\* mutant: the playing item can be removed too
on_queue_remove_any(w, u, item_id) ==
    IF ~IsHostOf(w, u) THEN w
    ELSE
      LET rid == TargetRoom(w.users[u])
          w1 == [w EXCEPT !.objs[rid].queue =
                     SelectSeq(@, LAMBDA q : q.id # item_id)]
      IN SchedulePredownload(_broadcast_queue(w1, rid), rid)

on_queue_remove(w, u, item_id) ==
    IF ~IsHostOf(w, u) THEN w
    ELSE
      LET rid == TargetRoom(w.users[u])
          w1 == [w EXCEPT !.objs[rid].queue =
                     SelectSeq(@, LAMBDA q : ~(q.id = item_id /\ q.status # "playing"))]
      IN SchedulePredownload(_broadcast_queue(w1, rid), rid)

\* for item_id in new_order: if item_id in id_to_item: reordered.append(pop)
RECURSIVE PickInOrder(_, _)
PickInOrder(new_order, low) ==
    IF new_order = <<>> THEN <<>>
    ELSE LET id == Head(new_order)
             hit == SelectSeq(low, LAMBDA q : q.id = id)
             rest == SelectSeq(low, LAMBDA q : q.id # id)
         IN (IF hit = <<>> THEN <<>> ELSE <<hit[Len(hit)]>>)
            \o PickInOrder(Tail(new_order), rest)

\* mutant: the low-priority items the order does not name are lost
Reordered_dropping(queue, new_order) ==
    LET active == SelectSeq(queue, LAMBDA q : q.status # "played")
        played == SelectSeq(queue, LAMBDA q : q.status = "played")
        n == IF Len(active) < PriorityCount THEN Len(active) ELSE PriorityCount
    IN played \o SubSeq(active, 1, n)
          \o PickInOrder(new_order, SubSeq(active, n + 1, Len(active)))

Reordered(queue, new_order) ==
    LET active == SelectSeq(queue, LAMBDA q : q.status # "played")
        played == SelectSeq(queue, LAMBDA q : q.status = "played")
        n == IF Len(active) < PriorityCount THEN Len(active) ELSE PriorityCount
        priority == SubSeq(active, 1, n)
        low == SubSeq(active, n + 1, Len(active))
        picked == PickInOrder(new_order, low)
        unmentioned == SelectSeq(low, LAMBDA q :
                           \A i \in 1..Len(new_order) : new_order[i] # q.id)
    IN played \o priority \o picked \o unmentioned

on_queue_reorder(w, u, new_order) ==
    IF ~IsHostOf(w, u) \/ new_order = <<>> THEN w
    ELSE
      LET rid == TargetRoom(w.users[u])
          w1 == [w EXCEPT !.objs[rid].queue = Reordered(@, new_order)]
      IN _broadcast_queue(w1, rid)

\* index of the first item of the queue satisfying P, 0 if none
FirstIndex(queue, P(_)) ==
    IF \E i \in 1..Len(queue) : P(queue[i])
    THEN MinOf({i \in 1..Len(queue) : P(queue[i])})
    ELSE 0

UpdatedItem(queue, item_id, new_status, ai_params) ==
    LET i == FirstIndex(queue, LAMBDA q : q.id = item_id) IN
    IF i = 0 THEN queue
    ELSE [queue EXCEPT ![i].status = IF new_status # "" THEN new_status ELSE @,
                       ![i].ai_params = IF ai_params # "none" THEN ai_params ELSE @]

on_queue_update_item(w, u, item_id, new_status, ai_params) ==
    IF ~IsHostOf(w, u) THEN w
    ELSE
      LET rid == TargetRoom(w.users[u])
          w1 == [w EXCEPT !.objs[rid].queue =
                     UpdatedItem(@, item_id, new_status, ai_params)]
      IN _broadcast_queue(w1, rid)

MarkPlayed(queue) ==
    LET i == FirstIndex(queue, LAMBDA q : q.status = "playing") IN
    IF i = 0 THEN queue ELSE [queue EXCEPT ![i].status = "played"]

NextIndex(queue) ==
    FirstIndex(queue, LAMBDA q : q.status \in {"ready", "pending"})

\* mutant: the promotion is announced after the queue update
on_queue_advance_late(w, u) ==
    IF ~IsHostOf(w, u) THEN w
    ELSE
      LET rid == TargetRoom(w.users[u])
          q1 == MarkPlayed(w.objs[rid].queue)
          i == NextIndex(q1)
          q2 == IF i = 0 THEN q1 ELSE [q1 EXCEPT ![i].status = "playing"]
          w1 == _broadcast_queue([w EXCEPT !.objs[rid].queue = q2], rid)
          w2 == IF i # 0
                THEN _broadcast(w1, rid, [type |-> "queue_play_next",
                                          item |-> q2[i]], None)
                ELSE w1
      IN SchedulePredownload(w2, rid)

on_queue_advance(w, u) ==
    IF ~IsHostOf(w, u) THEN w
    ELSE
      LET rid == TargetRoom(w.users[u])
          q1 == MarkPlayed(w.objs[rid].queue)
          i == NextIndex(q1)
          q2 == IF i = 0 THEN q1 ELSE [q1 EXCEPT ![i].status = "playing"]
          w1 == [w EXCEPT !.objs[rid].queue = q2]
          w2 == IF i # 0
                THEN _broadcast(w1, rid, [type |-> "queue_play_next",
                                          item |-> q2[i]], None)
                ELSE w1
      IN SchedulePredownload(_broadcast_queue(w2, rid), rid)

(* ---------------------------- suggestions ----------------------------- *)
\* mutant: a pending suggestion does not stop the next one
has_pending_never(room, u) == FALSE

\* any(s.user_id == user_id and s.status == "pending" for s in room.suggestions)
has_pending(room, u) ==
    \E i \in 1..Len(room.suggestions) :
        /\ room.suggestions[i].user_id = u
        /\ room.suggestions[i].status = "pending"

on_suggest_song(w, u, id, in) ==
    LET rid == w.users[u].room_id IN
    IF rid = None \/ rid \notin w.reg THEN w
    ELSE IF w.objs[rid].host_id = u THEN w
    ELSE IF has_pending(w.objs[rid], u)
    THEN _send(w, u, [type |-> "error",
                      message |-> "You already have a pending suggestion"])
    ELSE
      LET sg == [id |-> id, title |-> in.title, source |-> in.source,
                 url |-> in.url, user_id |-> u, status |-> "pending"]
          w1 == [w EXCEPT !.objs[rid].suggestions = Append(@, sg)]
          host == w1.objs[rid].host_id
          w2 == IF host \in w1.objs[rid].members
                THEN _send(w1, host, [type |-> "new_suggestion", suggestion |-> sg])
                ELSE w1
      IN _send(w2, u, [type |-> "suggestion_sent", suggestion |-> sg])

\* mutant: the approved song jumps the queue
on_respond_suggestion_front(w, u, id, suggestion_id, action) ==
    IF ~IsHostOf(w, u) THEN w
    ELSE
      LET rid == TargetRoom(w.users[u])
          room == w.objs[rid]
          i == FirstIndex(room.suggestions,
                          LAMBDA s : s.id = suggestion_id /\ s.status = "pending")
          s == room.suggestions[i]
          item == NewItem(id, s.title, s.source, s.url, s.user_id,
                          IF s.source = "soundcloud" THEN s.url ELSE "")
          w1 == IF i = 0 THEN w
                ELSE [w EXCEPT !.objs[rid].suggestions[i].status =
                                   IF action = "approve" THEN "approved" ELSE "rejected",
                               !.objs[rid].queue =
                                   IF action = "approve" THEN <<item>> \o @ ELSE @]
          w2 == IF i # 0 /\ s.user_id \in room.members
                THEN _send(w1, s.user_id, [type |-> "suggestion_response",
                                           suggestionId |-> s.id, action |-> action])
                ELSE w1
      IN _broadcast_queue(w2, rid)

on_respond_suggestion(w, u, id, suggestion_id, action) ==
    IF ~IsHostOf(w, u) THEN w
    ELSE
      LET rid == TargetRoom(w.users[u])
          room == w.objs[rid]
          i == FirstIndex(room.suggestions,
                          LAMBDA s : s.id = suggestion_id /\ s.status = "pending")
          s == room.suggestions[i]
          item == NewItem(id, s.title, s.source, s.url, s.user_id,
                          IF s.source = "soundcloud" THEN s.url ELSE "")
          w1 == IF i = 0 THEN w
                ELSE [w EXCEPT !.objs[rid].suggestions[i].status =
                                   IF action = "approve" THEN "approved" ELSE "rejected",
                               !.objs[rid].queue =
                                   IF action = "approve" THEN Append(@, item) ELSE @]
          w2 == IF i # 0 /\ s.user_id \in room.members
                THEN _send(w1, s.user_id, [type |-> "suggestion_response",
                                           suggestionId |-> s.id, action |-> action])
                ELSE w1
      IN _broadcast_queue(w2, rid)

(* -------------------------------- chat -------------------------------- *)
\* room.messages.append(msg), cut to the last 100 once longer than 200
Appended(messages, msg) ==
    LET all == Append(messages, msg) IN
    IF Len(all) > MaxMessages
    THEN SubSeq(all, Len(all) - KeepMessages + 1, Len(all))
    ELSE all

\* ChatMessage(user_id=user_id, text=text, is_host=(room.host_id == user_id))
ChatMsg(room, u, text) ==
    [user_id |-> u, text |-> text, about |-> None,
     is_host |-> (room.host_id = u), is_system |-> FALSE]

on_chat_message(w, u, text) ==
    LET rid == w.users[u].room_id IN
    IF text = "" \/ rid = None \/ rid \notin w.reg THEN w
    ELSE
      LET msg == ChatMsg(w.objs[rid], u, text)
          w1 == [w EXCEPT !.objs[rid].messages = Appended(@, msg)]
      IN _broadcast(w1, rid, [type |-> "chat_message", message |-> msg], None)

(* ------------------------------ REST edge ----------------------------- *)
\* POST /rooms/upload-audio: a new file under UPLOAD_DIR
upload_audio(w, f) == [w EXCEPT !.files = @ \cup {f}]

(* ------------------------- state machine ------------------------------ *)
Connected == {u \in DOMAIN users : users[u].connected}

InitHist == [src |-> NoSource, ai |-> "none", sync |-> NoSync, later |-> FALSE]

Msg(type, u, arg) ==
    [type |-> type, user |-> u, arg |-> arg,
     from |-> IF u \in DOMAIN users THEN users[u].room_id ELSE None,
     hosted |-> IF u \in DOMAIN users THEN users[u].hosted_room_id ELSE None]

\* The handler returned: Room objects outside the registry and User objects
\* that are neither connected nor a member of a room are unreachable.
Finish(w, msg, h) ==
    /\ budget > 0
    /\ budget' = budget - 1
    /\ itemCap' = itemCap
    /\ rooms' = [r \in w.reg |-> w.objs[r]]
    /\ users' = [u \in {x \in DOMAIN w.users :
                          \/ w.users[x].connected
                          \/ \E r \in w.reg : x \in w.objs[r].members}
                   |-> w.users[u]]
    /\ files' = w.files
    /\ tasks' = w.tasks
    /\ sent' = w.sent
    /\ last' = msg
    /\ broken' = {x \in w.broken : x \in DOMAIN w.users /\ w.users[x].connected}
    /\ UNCHANGED <<pc, detached>>
    /\ hist' = [r \in w.reg |-> IF r \in DOMAIN h THEN h[r] ELSE InitHist]

\* the server starts with both registries empty; n messages will be handled
InitWith(n) ==
    /\ users = <<>>
    /\ rooms = <<>>
    /\ files = {}
    /\ tasks = {}
    /\ nextUser = 1
    /\ nextRoom = 1
    /\ nextFile = 1
    /\ nextItem = 1
    /\ sent = <<>>
    /\ last = [type |-> "init", user |-> None, arg |-> None, from |-> None,
               hosted |-> None]
    /\ hist = <<>>
    /\ budget = n
    /\ itemCap = MaxItems
    /\ broken = {}
    /\ pc = <<>>
    /\ detached = <<>>

Init == InitWith(MaxOps)

\* no user, no room, no file, nothing sent
EmptyWorld ==
    [users |-> <<>>, objs |-> <<>>, reg |-> {}, files |-> {}, sent |-> <<>>,
     tasks |-> {}, closing |-> None, broken |-> {}]

\* the next handler starts with nothing sent yet
Quiet(w) == [w EXCEPT !.sent = <<>>]

\* A stage with its host and one audience member: user 1 and user 2 connect,
\* user 1 creates room 1 and makes it public, user 2 joins it.
StageWorld ==
    LET w1 == on_connect(EmptyWorld, 1)
        w2 == on_connect(Quiet(w1), 2)
        w3 == on_create_room(Quiet(w2), 1, 1)
        w4 == on_toggle_public(Quiet(w3), 1)
    IN Quiet(on_join_room(Quiet(w4), 2, 1))

\* A public stage with its host, and a second user on the menu: user 1 and
\* user 2 connect, user 1 creates room 1 and makes it public.
LobbyWorld ==
    LET w1 == on_connect(EmptyWorld, 1)
        w2 == on_connect(Quiet(w1), 2)
        w3 == on_create_room(Quiet(w2), 1, 1)
    IN Quiet(on_toggle_public(Quiet(w3), 1))

\* the stage after its host sent n chat messages, n below the cap: each
\* was appended to the history and nothing was cut
Chatted(n) ==
    [StageWorld EXCEPT !.objs[1].messages =
        @ \o [i \in 1..n |->
                 ChatMsg(StageWorld.objs[1], 1, IF i % 3 = 0 THEN "hi" ELSE "yo")]]

\* the stage after its host added n items to the queue, ids 1..n
RECURSIVE Queued(_)
Queued(n) ==
    IF n = 0 THEN StageWorld
    ELSE [Quiet(on_queue_add(Queued(n - 1), 1, n,
                             [title |-> "song", source |-> "file",
                              url |-> "/rooms/uploads/a.mp3",
                              soundcloudUrl |-> ""]))
            EXCEPT !.tasks = {}]

\* the item and suggestion ids minted on the way to world w
MintedIds(w) ==
    UNION {{w.objs[r].queue[i].id : i \in 1..Len(w.objs[r].queue)}
             \cup {w.objs[r].suggestions[i].id :
                      i \in 1..Len(w.objs[r].suggestions)} : r \in w.reg}

\* the server after the handlers that led to world w; n more messages will
\* be handled and cap items and suggestions minted
InitFrom(w, n, cap) ==
    /\ users = w.users
    /\ rooms = [r \in w.reg |-> w.objs[r]]
    /\ files = w.files
    /\ tasks = w.tasks
    /\ nextUser = Cardinality(DOMAIN w.users) + 1
    /\ nextRoom = Cardinality(w.reg) + 1
    /\ nextFile = 1
    /\ nextItem = Cardinality(MintedIds(w)) + 1
    /\ sent = <<>>
    /\ last = [type |-> "init", user |-> None, arg |-> None, from |-> None,
               hosted |-> None]
    /\ hist = [r \in w.reg |-> InitHist]
    /\ budget = n
    /\ itemCap = cap
    /\ broken = {}
    /\ pc = <<>>
    /\ detached = <<>>

Connect ==
    /\ nextUser <= MaxUsers
    /\ Finish(on_connect(World(None), nextUser), Msg("connect", nextUser, None), hist)
    /\ nextUser' = nextUser + 1
    /\ UNCHANGED <<nextRoom, nextFile, nextItem>>

Disconnect ==
    \E u \in Connected :
        /\ Finish(on_disconnect(World(u), u), Msg("disconnect", u, None), hist)
        /\ UNCHANGED <<nextUser, nextRoom, nextFile, nextItem>>

CreateRoom ==
    \E u \in Connected :
        /\ nextRoom <= MaxRooms
        /\ Finish(on_create_room(World(None), u, nextRoom),
                  Msg("create_room", u, nextRoom), hist)
        /\ nextRoom' = nextRoom + 1
        /\ UNCHANGED <<nextUser, nextFile, nextItem>>

JoinRoom ==
    \E u \in Connected, t \in RoomIds :
        /\ Finish(on_join_room(World(None), u, t), Msg("join_room", u, t), hist)
        /\ UNCHANGED <<nextUser, nextRoom, nextFile, nextItem>>

ReturnToRoom ==
    \E u \in Connected :
        /\ Finish(on_return_to_room(World(None), u), Msg("return_to_room", u, None), hist)
        /\ UNCHANGED <<nextUser, nextRoom, nextFile, nextItem>>

EndRoom ==
    \E u \in Connected :
        /\ Finish(on_end_room(World(None), u), Msg("end_room", u, None), hist)
        /\ UNCHANGED <<nextUser, nextRoom, nextFile, nextItem>>

GoToMenu ==
    \E u \in Connected :
        /\ Finish(on_go_to_menu(World(None), u), Msg("go_to_menu", u, None), hist)
        /\ UNCHANGED <<nextUser, nextRoom, nextFile, nextItem>>

LeaveRoom ==
    \E u \in Connected :
        /\ Finish(on_leave_room(World(None), u), Msg("leave_room", u, None), hist)
        /\ UNCHANGED <<nextUser, nextRoom, nextFile, nextItem>>

TogglePublic ==
    \E u \in Connected :
        /\ Finish(on_toggle_public(World(None), u), Msg("toggle_public", u, None), hist)
        /\ UNCHANGED <<nextUser, nextRoom, nextFile, nextItem>>

(* -------------------------- message inputs ---------------------------- *)
AudioSources ==
    {NoSource, [type |-> "soundcloud", url |-> None]}
        \cup {[type |-> "upload", url |-> f] : f \in FileIds}

AiParamValues == {"none", "p1"}

SyncInputs ==
    {[currentTime |-> 42, isPlaying |-> TRUE, playbackSpeed |-> 1],
     [currentTime |-> 7, isPlaying |-> FALSE, playbackSpeed |-> 2]}

HostActions ==
    {<<"play_pause", TRUE>>, <<"seek", 5>>, <<"speed_change", 3>>,
     <<"shape_change", "cube">>, <<"anaglyph_toggle", TRUE>>}

RoomNames == {"", "party"}

NowPlayingValues == {"none", "track"}

LocalUrls == {"/soundcloud/file/t.mp3"}

QueueInputs ==
    {[title |-> "song", source |-> "file", url |-> "/rooms/uploads/a.mp3",
      soundcloudUrl |-> ""],
     [title |-> "track", source |-> "soundcloud", url |-> "https://sc/t",
      soundcloudUrl |-> "https://sc/t"]}

StatusInputs == {"", "pending", "analyzing", "ready", "playing", "played"}

OrderInputs ==
    {<<>>} \cup {<<a>> : a \in ItemIds} \cup {<<a, b>> : a \in ItemIds, b \in ItemIds}

SuggestInputs ==
    {[title |-> "wish", source |-> "soundcloud", url |-> "https://sc/w"]}

ResponseInputs == {"approve", "reject"}

(* ------------------ history of the playback snapshot ------------------ *)
\* the room a host-only message of user u is about
Targets(u) ==
    IF users[u].hosted_room_id # None THEN users[u].hosted_room_id
    ELSE users[u].room_id

\* the message is from the host of the room it is about
FromHost(u) ==
    /\ Targets(u) \in DOMAIN rooms
    /\ rooms[Targets(u)].host_id = u

HistSource(u, src, ai) ==
    IF FromHost(u)
    THEN [hist EXCEPT ![Targets(u)] =
             [src |-> src, ai |-> ai, sync |-> ZeroSync, later |-> FALSE]]
    ELSE hist

HistSync(u, sync) ==
    IF FromHost(u)
    THEN [hist EXCEPT ![Targets(u)].sync =
                          [set |-> TRUE, currentTime |-> sync.currentTime,
                           isPlaying |-> sync.isPlaying,
                           playbackSpeed |-> sync.playbackSpeed],
                      ![Targets(u)].later = FALSE]
    ELSE hist

HistAction(u, action) ==
    IF FromHost(u) /\ action \in {"play_pause", "seek", "speed_change"}
    THEN [hist EXCEPT ![Targets(u)].later = TRUE]
    ELSE hist

(* ----------------------- actions: host-only --------------------------- *)
UploadAudio ==
    /\ nextFile <= MaxFiles
    /\ Finish(upload_audio(World(None), nextFile), Msg("upload_audio", None, nextFile), hist)
    /\ nextFile' = nextFile + 1
    /\ UNCHANGED <<nextUser, nextRoom, nextItem>>

RenameRoom ==
    \E u \in Connected, n \in RoomNames :
        /\ Finish(on_rename_room(World(None), u, n), Msg("rename_room", u, n), hist)
        /\ UNCHANGED <<nextUser, nextRoom, nextFile, nextItem>>

UpdateNowPlaying ==
    \E u \in Connected, np \in NowPlayingValues :
        /\ Finish(on_update_now_playing(World(None), u, np),
                  Msg("update_now_playing", u, None), hist)
        /\ UNCHANGED <<nextUser, nextRoom, nextFile, nextItem>>

SetAudioSource ==
    \E u \in Connected, src \in AudioSources, ai \in AiParamValues :
        /\ Finish(on_set_audio_source(World(None), u, src, ai),
                  Msg("set_audio_source", u,
                      IF FromHost(u) THEN [audioSource |-> src, aiParams |-> ai]
                      ELSE None), HistSource(u, src, ai))
        /\ UNCHANGED <<nextUser, nextRoom, nextFile, nextItem>>

SyncState ==
    \E u \in Connected, sync \in SyncInputs :
        /\ Finish(on_sync_state(World(None), u, sync),
                  Msg("sync_state", u, IF FromHost(u) THEN sync ELSE None), HistSync(u, sync))
        /\ UNCHANGED <<nextUser, nextRoom, nextFile, nextItem>>

HostAction ==
    \E u \in Connected, a \in HostActions :
        /\ Finish(on_host_action(World(None), u, a[1], a[2]),
                  Msg("host_action", u, IF FromHost(u) THEN a ELSE None), HistAction(u, a[1]))
        /\ UNCHANGED <<nextUser, nextRoom, nextFile, nextItem>>

QueueAdd ==
    \E u \in Connected, in \in QueueInputs :
        /\ nextItem <= itemCap
        /\ Finish(on_queue_add(World(None), u, nextItem, in),
                  Msg("queue_add", u, None), hist)
        /\ nextItem' = nextItem + 1
        /\ UNCHANGED <<nextUser, nextRoom, nextFile>>

QueueRemove ==
    \E u \in Connected, id \in ItemIds :
        /\ Finish(on_queue_remove(World(None), u, id),
                  Msg("queue_remove", u, IF FromHost(u) THEN id ELSE None), hist)
        /\ UNCHANGED <<nextUser, nextRoom, nextFile, nextItem>>

QueueReorder ==
    \E u \in Connected, order \in OrderInputs :
        /\ Finish(on_queue_reorder(World(None), u, order),
                  Msg("queue_reorder", u, Len(order)), hist)
        /\ UNCHANGED <<nextUser, nextRoom, nextFile, nextItem>>

QueueUpdateItem ==
    \E u \in Connected, id \in ItemIds, st \in StatusInputs, ai \in AiParamValues :
        /\ Finish(on_queue_update_item(World(None), u, id, st, ai),
                  Msg("queue_update_item", u, None), hist)
        /\ UNCHANGED <<nextUser, nextRoom, nextFile, nextItem>>

QueueAdvance ==
    \E u \in Connected :
        /\ Finish(on_queue_advance(World(None), u), Msg("queue_advance", u, None), hist)
        /\ UNCHANGED <<nextUser, nextRoom, nextFile, nextItem>>

SuggestSong ==
    \E u \in Connected, in \in SuggestInputs :
        /\ nextItem <= itemCap
        /\ Finish(on_suggest_song(World(None), u, nextItem, in),
                  Msg("suggest_song", u, None), hist)
        /\ nextItem' = nextItem + 1
        /\ UNCHANGED <<nextUser, nextRoom, nextFile>>

RespondSuggestion ==
    \E u \in Connected, sid \in ItemIds, a \in ResponseInputs :
        /\ nextItem <= itemCap
        /\ Finish(on_respond_suggestion(World(None), u, nextItem, sid, a),
                  Msg("respond_suggestion", u, [id |-> sid, action |-> a]), hist)
        /\ nextItem' = nextItem + 1
        /\ UNCHANGED <<nextUser, nextRoom, nextFile>>

UserNames == {"ann", "bob"}

SetUsername ==
    \E u \in Connected, name \in UserNames :
        /\ Finish(on_set_username(World(None), u, name),
                  Msg("set_username", u, name), hist)
        /\ UNCHANGED <<nextUser, nextRoom, nextFile, nextItem>>

ChatTexts == {"", "hi"}

\* chat histories the runs start from: short, and one to three appends
\* before the cap (the stage starts with the join's system message)
ChatLengths == {0} \cup (MaxMessages - 3)..(MaxMessages - 1)

ChatMessage ==
    \E u \in Connected, text \in ChatTexts :
        /\ Finish(on_chat_message(World(None), u, text),
                  Msg("chat_message", u, text), hist)
        /\ UNCHANGED <<nextUser, nextRoom, nextFile, nextItem>>

\* a scheduled pre-download task of room rid runs; each request it makes
\* succeeds or fails
Predownload ==
    \E rid \in tasks, ok \in SUBSET ItemIds :
        LET started == IF rid \in DOMAIN rooms
                       THEN {rooms[rid].queue[i].id :
                                i \in DownloadTargets(rooms[rid].queue)}
                       ELSE {}
        IN /\ ok \subseteq started
           /\ Finish([_predownload_priority_tracks(World(None), rid, ok)
                         EXCEPT !.tasks = @ \ {rid}],
                     Msg("predownload", None,
                         [room |-> rid, started |-> started, failed |-> started \ ok]),
                     hist)
           /\ UNCHANGED <<nextUser, nextRoom, nextFile, nextItem>>

\* the transport of a connected user fails: from now on send_json to u
\* raises (or the socket has left the CONNECTED state), while the dispatcher
\* of u has not yet run its cleanup
Break ==
    \E u \in Connected \ broken :
        /\ budget > 0
        /\ budget' = budget - 1
        /\ broken' = broken \cup {u}
        /\ sent' = <<>>
        /\ last' = Msg("transport_failure", u, None)
        /\ UNCHANGED <<users, rooms, files, tasks, nextUser, nextRoom, nextFile,
                       nextItem, hist, itemCap, pc, detached>>

(* ------------- handlers interleaved at their awaits ------------------- *)
\* A handler runs without interruption up to an await of a send (_send, or
\* the gather of _broadcast); there the event loop may run the handler of
\* another connection.  pc[u] is the frame of the suspended handler of
\* connection u: where it resumes and the locals it holds.  A Room object
\* that a frame still refers to after rooms.pop is kept in detached.  The
\* sends of a segment are made when the segment runs, and sent accumulates
\* over the run, in the order the sends were made.

Frame(at, room, rest, msg, then) ==
    [at |-> at, room |-> room, rest |-> rest, sys_msg |-> msg, then |-> then]

AsyncWorld ==
    [users |-> users,
     objs |-> [r \in DOMAIN rooms \cup DOMAIN detached |->
                 IF r \in DOMAIN rooms THEN rooms[r] ELSE detached[r]],
     reg |-> DOMAIN rooms, files |-> files, sent |-> <<>>, tasks |-> tasks,
     closing |-> None, broken |-> broken, pc |-> pc]

Suspend(w, u, frame) ==
    [w EXCEPT !.pc = [x \in DOMAIN @ \cup {u} |-> IF x = u THEN frame ELSE @[x]]]

Return(w, u) ==
    [w EXCEPT !.pc = [x \in DOMAIN @ \ {u} |-> @[x]]]

\* join_room after 'await _broadcast(target, user_joined)': the public list
join_room_public(w, u) == Return(_broadcast_public_rooms(w), u)

\* join_room after 'await _send(ws, room_joined)': the member list is read
\* now, and the gather is awaited if it has a task
join_room_broadcast(w, u) ==
    LET t == w.pc[u].room
        w1 == _broadcast(w, t, UserJoinedEnv(w, t, u, w.pc[u].sys_msg), u)
    IN IF w.objs[t].members \ {u} = {} THEN join_room_public(w1, u)
       ELSE Suspend(w1, u, Frame("join_room: public_rooms", t, <<>>,
                                 w.pc[u].sys_msg, ""))

\* join_room of a user who hosts no room and is in no room of the registry,
\* up to 'await _send(ws, room_joined)'
join_room_begin(w, u, t) ==
    IF ~JoinAllowed(w, t)
    THEN _send(w, u, [type |-> "error",
                      message |-> IF t \notin w.reg THEN "Room not found"
                                  ELSE "Room is private"])
    ELSE
      LET msg == SysMsg("joined", u)
          w2 == [w EXCEPT !.users[u].room_id = t,
                          !.users[u].is_host = FALSE,
                          !.objs[t].members = @ \cup {u},
                          !.objs[t].messages = Append(@, msg)]
          w3 == _send(w2, u, [type |-> "room_joined",
                              room |-> _room_full(t, w2.objs[t]),
                              members |-> _member_list(w2, w2.objs[t]),
                              messages |-> Recent(w2.objs[t].messages)])
      IN Suspend(w3, u, Frame("join_room: user_joined", t, <<>>, msg, ""))

\* _destroy_hosted_room from the top of its loop over list(room.members)
\* to the next await: the next member is cleared and sent room_closed, or,
\* the list done, the room leaves the registry and the public list goes out
destroy_step(w, u, rid, rest, then) ==
    IF rest # <<>>
    THEN LET m == Head(rest)
             w1 == [w EXCEPT !.users[m].room_id = None,
                             !.users[m].is_host = FALSE]
         IN Suspend(_send(w1, m, [type |-> "room_closed",
                                  reason |-> "Host ended the stage"]),
                    u, Frame("_destroy_hosted_room: loop", rid, Tail(rest),
                             None, then))
    ELSE LET w2 == [w EXCEPT !.reg = @ \ {rid},
                             !.users[u].hosted_room_id = None,
                             !.users[u].room_id = None,
                             !.users[u].is_host = FALSE]
         IN Suspend(_broadcast_public_rooms(w2), u,
                    Frame(then, rid, <<>>, None, ""))

\* end_room up to the first await of _destroy_hosted_room
end_room_begin(w, u) ==
    LET h == w.users[u].hosted_room_id IN
    IF h = None \/ h \notin w.reg THEN w
    ELSE destroy_step(w, u, h, SortedSeq(w.objs[h].members), "end_room: reply")

\* end_room after 'await _destroy_hosted_room(user)'
end_room_reply(w, u) == Return(_send(w, u, [type |-> "hosted_room_ended"]), u)

\* the end of the finally block: _leave_room if the user is still in a room
\* of the registry, then users.pop(user_id)
cleanup_pop(w, u) ==
    LET w3 == IF w.users[u].room_id # None /\ w.users[u].room_id \in w.reg
              THEN _leave_room(w, u) ELSE w
    IN Return([w3 EXCEPT !.users[u].connected = FALSE], u)

\* mutant: the user record is dropped while the hosted room is still in the
\* registry
cleanup_begin_pop_first(w, u) ==
    [w EXCEPT !.broken = @ \cup {u}, !.users[u].connected = FALSE]

\* the finally block of a user who is not visiting, the socket closed, up
\* to its first await
cleanup_begin(w, u) ==
    LET w0 == [w EXCEPT !.broken = @ \cup {u}]
        h == w.users[u].hosted_room_id
    IN IF h # None /\ h \in w.reg
       THEN destroy_step(w0, u, h, SortedSeq(w.objs[h].members), "finally: pop")
       ELSE cleanup_pop(w0, u)

\* the suspended handler of u runs its next segment
resume(w, u) ==
    LET f == w.pc[u] IN
    CASE f.at = "join_room: user_joined" -> join_room_broadcast(w, u)
      [] f.at = "join_room: public_rooms" -> join_room_public(w, u)
      [] f.at = "_destroy_hosted_room: loop" ->
           destroy_step(w, u, f.room, f.rest, f.then)
      [] f.at = "end_room: reply" -> end_room_reply(w, u)
      [] f.at = "finally: pop" -> cleanup_pop(w, u)

\* the segment ended in world w: what the registries and the frames still
\* reach is kept, and what was sent is added to the log
AsyncFinish(w, msg) ==
    LET held == {w.pc[x].room : x \in DOMAIN w.pc} \ (w.reg \cup {None})
        kept == w.reg \cup held
    IN
    /\ budget > 0
    /\ budget' = budget - 1
    /\ itemCap' = itemCap
    /\ rooms' = [r \in w.reg |-> w.objs[r]]
    /\ detached' = [r \in held |-> w.objs[r]]
    /\ users' = [u \in {x \in DOMAIN w.users :
                          \/ w.users[x].connected
                          \/ \E r \in kept : x \in w.objs[r].members}
                   |-> w.users[u]]
    /\ files' = w.files
    /\ tasks' = w.tasks
    /\ sent' = sent \o w.sent
    /\ last' = msg
    /\ pc' = w.pc
    /\ broken' = {x \in w.broken : w.users[x].connected}
    /\ hist' = [r \in w.reg |-> IF r \in DOMAIN hist THEN hist[r] ELSE InitHist]

\* the connections whose dispatcher waits in receive_json
Idle == Connected \ (DOMAIN pc \cup broken)

AsyncConnect ==
    /\ nextUser <= MaxUsers
    /\ AsyncFinish(on_connect(AsyncWorld, nextUser), Msg("connect", nextUser, None))
    /\ nextUser' = nextUser + 1
    /\ UNCHANGED <<nextRoom, nextFile, nextItem>>

AsyncJoinRoom ==
    \E u \in Idle, t \in RoomIds :
        /\ users[u].hosted_room_id = None
        /\ users[u].room_id \notin DOMAIN rooms
        /\ AsyncFinish(join_room_begin(AsyncWorld, u, t), Msg("join_room", u, t))
        /\ UNCHANGED <<nextUser, nextRoom, nextFile, nextItem>>

AsyncChatMessage ==
    \E u \in Idle, text \in ChatTexts :
        /\ AsyncFinish(on_chat_message(AsyncWorld, u, text),
                       Msg("chat_message", u, text))
        /\ UNCHANGED <<nextUser, nextRoom, nextFile, nextItem>>

AsyncEndRoom ==
    \E u \in Idle :
        /\ AsyncFinish(end_room_begin(AsyncWorld, u), Msg("end_room", u, None))
        /\ UNCHANGED <<nextUser, nextRoom, nextFile, nextItem>>

\* receive_json raises WebSocketDisconnect: a host in the hosted room, or a
\* user who is in no room of the registry
AsyncDisconnect ==
    \E u \in Idle :
        /\ users[u].room_id \in DOMAIN rooms
              => users[u].hosted_room_id = users[u].room_id
        /\ AsyncFinish(cleanup_begin(AsyncWorld, u), Msg("disconnect", u, None))
        /\ UNCHANGED <<nextUser, nextRoom, nextFile, nextItem>>

\* the send a handler awaited is done and the event loop resumes it
Resume ==
    \E u \in DOMAIN pc :
        /\ AsyncFinish(resume(AsyncWorld, u), Msg("resume", u, pc[u].at))
        /\ UNCHANGED <<nextUser, nextRoom, nextFile, nextItem>>

(* --------------------------- specifications --------------------------- *)
\* The room lifecycle: connections, rooms, membership, visiting.
Next ==
    \/ Connect
    \/ Disconnect
    \/ CreateRoom
    \/ JoinRoom
    \/ ReturnToRoom
    \/ EndRoom
    \/ GoToMenu
    \/ LeaveRoom
    \/ TogglePublic

Spec == Init /\ [][Next]_vars

\* Uploaded media and the ways a room is destroyed.
NextUpload ==
    \/ Connect
    \/ Disconnect
    \/ UploadAudio
    \/ CreateRoom
    \/ SetAudioSource
    \/ EndRoom
    \/ LeaveRoom

SpecUpload == InitWith(MaxOpsUpload) /\ [][NextUpload]_vars

\* Playback state and the snapshot a late joiner is sent.
NextSync ==
    \/ Connect
    \/ CreateRoom
    \/ TogglePublic
    \/ SetAudioSource
    \/ SyncState
    \/ HostAction
    \/ JoinRoom

SpecSync == InitWith(MaxOpsSync) /\ [][NextSync]_vars

\* Every host-only message, from hosts and from others.
NextAuth ==
    \/ Connect
    \/ CreateRoom
    \/ TogglePublic
    \/ JoinRoom
    \/ EndRoom
    \/ RenameRoom
    \/ UpdateNowPlaying
    \/ SetAudioSource
    \/ SyncState
    \/ HostAction
    \/ QueueAdd
    \/ QueueRemove
    \/ QueueReorder
    \/ QueueUpdateItem
    \/ QueueAdvance
    \/ SuggestSong
    \/ RespondSuggestion

SpecAuth == InitFrom(StageWorld, MaxOpsAuth, MaxItems) /\ [][NextAuth]_vars

\* The song queue and the suggestions of one stage with an audience.
NextQueue ==
    \/ QueueAdd
    \/ QueueRemove
    \/ QueueReorder
    \/ QueueUpdateItem
    \/ QueueAdvance
    \/ SuggestSong
    \/ RespondSuggestion
    \/ LeaveRoom
    \/ Predownload

SpecQueue == InitFrom(StageWorld, MaxOpsQueue, MaxStageItems) /\ [][NextQueue]_vars

\* The chat history of a stage, near its cap.
NextChat ==
    \/ ChatMessage
    \/ JoinRoom
    \/ LeaveRoom

SpecChat ==
    /\ \E n \in ChatLengths : InitFrom(Chatted(n), MaxOpsChat, MaxItems)
    /\ [][NextChat]_vars

\* Suggestions of the audience while the host comes and goes.
NextSuggest ==
    \/ SuggestSong
    \/ RespondSuggestion
    \/ GoToMenu
    \/ ReturnToRoom
    \/ JoinRoom
    \/ LeaveRoom

SpecSuggest ==
    InitFrom(StageWorld, MaxOpsSuggest, MaxStageItems) /\ [][NextSuggest]_vars

\* Events for all members of a room while users come and go.
NextFanout ==
    \/ Connect
    \/ Disconnect
    \/ SetUsername
    \/ ChatMessage
    \/ CreateRoom
    \/ JoinRoom
    \/ GoToMenu
    \/ EndRoom
    \/ TogglePublic
    \/ RenameRoom
    \/ QueueAdd

SpecFanout ==
    InitFrom(StageWorld, MaxOpsFanout, MaxItems) /\ [][NextFanout]_vars

\* Broadcasts and room destructions while transports fail.
NextBreak ==
    \/ Connect
    \/ JoinRoom
    \/ Break
    \/ ChatMessage
    \/ TogglePublic
    \/ EndRoom
    \/ Disconnect

SpecBreak ==
    InitFrom(StageWorld, MaxOpsBreak, MaxItems) /\ [][NextBreak]_vars

\* Handlers of different connections interleaved at their awaits.
NextAsync ==
    \/ AsyncConnect
    \/ AsyncJoinRoom
    \/ AsyncChatMessage
    \/ AsyncEndRoom
    \/ AsyncDisconnect
    \/ Resume

SpecAsync ==
    InitFrom(LobbyWorld, MaxOpsAsync, MaxItems) /\ [][NextAsync]_vars

\* A queue longer than its priority region is reordered.
NextReorder ==
    \/ QueueReorder
    \/ QueueAdvance
    \/ QueueUpdateItem
    \/ QueueAdd

SpecReorder ==
    InitFrom(Queued(MaxQueued), MaxOpsReorder, MaxQueued + 1)
        /\ [][NextReorder]_vars

\* Users create, join and leave rooms; no room is ended and nobody
\* disconnects.
NextVisit ==
    \/ Connect
    \/ CreateRoom
    \/ TogglePublic
    \/ JoinRoom
    \/ GoToMenu
    \/ LeaveRoom
    \/ ReturnToRoom

SpecVisit == InitWith(MaxOps) /\ [][NextVisit]_vars

\* Every message that can change the listing of the public rooms.
NextListing ==
    \/ Connect
    \/ Disconnect
    \/ CreateRoom
    \/ JoinRoom
    \/ ReturnToRoom
    \/ EndRoom
    \/ GoToMenu
    \/ LeaveRoom
    \/ TogglePublic
    \/ RenameRoom
    \/ UpdateNowPlaying

SpecListing == InitWith(MaxOpsListing) /\ [][NextListing]_vars

(* ------------------------------ claims -------------------------------- *)
\* the envelopes of the last handler that went to user u
SentTo(u) == {i \in 1..Len(sent) : sent[i].to = u}

\* the envelopes of type ty the last handler sent
SentOfType(ty) == {i \in 1..Len(sent) : sent[i].env.type = ty}

\* C1: every connected user's inRoomId, if non-null, names a room of the
\* registry whose members contain that user.
C1_InRoomIsMember ==
    \A u \in Connected :
        users[u].room_id # None =>
            /\ users[u].room_id \in DOMAIN rooms
            /\ u \in rooms[users[u].room_id].members

\* C2: for every room of the registry, hostVisiting is true exactly when the
\* host is not among the members.
C2_HostVisitingIffAbsent ==
    \A r \in DOMAIN rooms :
        rooms[r].host_visiting <=> (rooms[r].host_id \notin rooms[r].members)

\* C3: a host who is a member of their own room R1 and joins another public
\* room R2 keeps R1 in the registry with hostVisiting true and without the
\* host, all other members of R1 untouched; the host is a non-host member of
\* R2 with inRoomId = R2, hostedRoomId = R1, and room_joined carries the
\* hostedRoom summary of R1.
C3_VisitKeepsHostedRoom ==
    [][LET u == last'.user
           t == last'.arg
           h == users[u].hosted_room_id
       IN (/\ last'.type = "join_room"
           /\ h \in DOMAIN rooms
           /\ rooms[h].host_id = u
           /\ users[u].room_id = h
           /\ u \in rooms[h].members
           /\ t # h
           /\ t \in DOMAIN rooms
           /\ rooms[t].is_public)
          =>
          /\ h \in DOMAIN rooms'
          /\ rooms'[h].host_visiting
          /\ rooms'[h].members = rooms[h].members \ {u}
          /\ \A m \in rooms[h].members \ {u} : users'[m] = users[m]
          /\ t \in DOMAIN rooms'
          /\ u \in rooms'[t].members
          /\ rooms'[t].host_id # u
          /\ ~users'[u].is_host
          /\ users'[u].room_id = t
          /\ users'[u].hosted_room_id = h
          /\ \E i \in 1..Len(sent') :
                /\ sent'[i].to = u
                /\ sent'[i].env.type = "room_joined"
                /\ "hostedRoom" \in DOMAIN sent'[i].env
                /\ sent'[i].env.hostedRoom = _hosted_room_summary(h, rooms'[h])
                /\ [id |-> u, name |-> users'[u].name, isHost |-> FALSE]
                      \in sent'[i].env.members
      ]_vars

\* C3 witness: a host just went from their own room, which keeps another
\* member, to a different room.
C3_Witness ==
    /\ last.type = "join_room"
    /\ last.hosted # None
    /\ last.from = last.hosted
    /\ last.arg # last.hosted
    /\ last.hosted \in DOMAIN rooms
    /\ rooms[last.hosted].host_visiting
    /\ rooms[last.hosted].members # {}
    /\ users[last.user].room_id = last.arg
    /\ \E i \in SentTo(last.user) : sent[i].env.type = "room_joined"

\* C4: when the connection of the host of R closes, after the cleanup R is
\* out of the registry, every member of R with an open connection was sent
\* room_closed and has inRoomId cleared, and neither the listing endpoint nor
\* a public_rooms broadcast of the cleanup contains R.
C4_HostCloseDestroysRoom ==
    [][LET u == last'.user
           r == users[u].hosted_room_id
       IN (/\ last'.type = "disconnect"
           /\ r \in DOMAIN rooms
           /\ rooms[r].host_id = u)
          =>
          /\ r \notin DOMAIN rooms'
          /\ \A m \in (rooms[r].members \ {u}) \cap Connected :
                /\ users'[m].room_id = None
                /\ \E i \in 1..Len(sent') :
                      sent'[i].to = m /\ sent'[i].env.type = "room_closed"
          /\ r \notin DOMAIN list_public_rooms'
          /\ \A m \in Connected \ {u} :
                \E i \in 1..Len(sent') :
                    sent'[i].to = m /\ sent'[i].env.type = "public_rooms"
          /\ \A i \in 1..Len(sent') :
                (sent'[i].env.type = "public_rooms" /\ r \in DOMAIN sent'[i].env.rooms)
                    => \E j \in (i + 1)..Len(sent') :
                           /\ sent'[j].to = sent'[i].to
                           /\ sent'[j].env.type = "public_rooms"
                           /\ r \notin DOMAIN sent'[j].env.rooms
      ]_vars

\* C4 witness: a host's connection closed and a member of the hosted room
\* was told so.
C4_Witness ==
    /\ last.type = "disconnect"
    /\ last.hosted # None
    /\ last.hosted \notin DOMAIN rooms
    /\ \E i \in SentOfType("room_closed") :
          /\ sent[i].env.reason = "Host ended the stage"
          /\ sent[i].to # last.user

\* C5: whenever a room whose audio source is an upload leaves the registry,
\* the uploaded file is no longer in blob storage.
C5_DestroyDeletesUpload ==
    [][\A r \in DOMAIN rooms \ DOMAIN rooms' :
          rooms[r].audio_source.type = "upload"
              => rooms[r].audio_source.url \notin files'
      ]_vars

\* C6: a room leaves the registry only by its host's end_room, create_room,
\* disconnect, or leave_room sent while occupying it.
C6_RoomLastsWithHost ==
    [][\A r \in DOMAIN rooms \ DOMAIN rooms' :
          /\ last'.user = rooms[r].host_id
          /\ \/ last'.type \in {"end_room", "create_room", "disconnect"}
             \/ last'.type = "leave_room" /\ last'.from = r
      ]_vars

\* C7: after a connection's cleanup the user is in no room's members and not
\* in the user registry.
C7_ClosedUserIsGone ==
    last.type = "disconnect" =>
        /\ last.user \notin Connected
        /\ \A r \in DOMAIN rooms : last.user \notin rooms[r].members

\* C8: join_room for an unknown or a private room answers the sender with one
\* error envelope and changes no user and no room.
C8_RefusedJoinChangesNothing ==
    [][(/\ last'.type = "join_room"
        /\ \/ last'.arg \notin DOMAIN rooms
           \/ ~rooms[last'.arg].is_public)
       =>
       /\ users' = users
       /\ rooms' = rooms
       /\ Len(sent') = 1
       /\ sent'[1].to = last'.user
       /\ sent'[1].env.type = "error"
      ]_vars

\* C8 witness: a join of an existing private room was refused.
C8_Witness ==
    /\ last.type = "join_room"
    /\ last.arg \in DOMAIN rooms
    /\ ~rooms[last.arg].is_public
    /\ last.user \notin rooms[last.arg].members
    /\ Len(sent) = 1
    /\ sent[1].env.type = "error"
    /\ sent[1].env.message = "Room is private"

\* room_joined of the last handler carries source, params and snapshot h
JoinedCarries(h, withSync) ==
    \A i \in 1..Len(sent') :
        sent'[i].env.type = "room_joined" =>
            /\ sent'[i].env.room.audioSource = h.src
            /\ sent'[i].env.room.aiParams = h.ai
            /\ withSync => sent'[i].env.room.lastSync = h.sync

\* C9 as claimed: once the host has sent a sync_state or set_audio_source,
\* room_joined sent to another user who joins carries the audioSource and
\* aiParams of the most recent set_audio_source and the lastSync of the most
\* recent sync_state (zeroed if a set_audio_source came after it), whatever
\* host_action messages the host sent.
C9_JoinCarriesLastSyncState ==
    [][(/\ last'.type = "join_room"
        /\ last'.arg \in DOMAIN hist
        /\ hist[last'.arg].sync.set
        /\ rooms[last'.arg].host_id # last'.user)
           => JoinedCarries(hist[last'.arg], TRUE)]_vars

\* C9 amended: the same, the lastSync part only when no host_action
\* play_pause, seek or speed_change followed the most recent sync_state or
\* set_audio_source.
C9_JoinCarriesSnapshot ==
    [][(last'.type = "join_room" /\ last'.arg \in DOMAIN hist)
           => JoinedCarries(hist[last'.arg], ~hist[last'.arg].later)]_vars

\* C9 witness: a joiner was sent a source and the snapshot of a sync_state.
C9_Witness ==
    /\ last.type = "join_room"
    /\ last.arg \in DOMAIN hist
    /\ ~hist[last.arg].later
    /\ \E i \in SentOfType("room_joined") :
          /\ sent[i].env.room.audioSource.type # "none"
          /\ sent[i].env.room.lastSync.set
          /\ sent[i].env.room.lastSync.currentTime = 42
          /\ sent[i].env.room.lastSync.isPlaying

HostOnlyTypes ==
    {"end_room", "toggle_public", "rename_room", "update_now_playing",
     "set_audio_source", "sync_state", "host_action", "queue_add",
     "queue_remove", "queue_reorder", "queue_update_item", "queue_advance",
     "respond_suggestion"}

\* C10: a host-only message from a user who is not the host of the room it
\* is about changes no room, sends no envelope and schedules no pre-download.
C10_NonHostDropped ==
    [][(last'.type \in HostOnlyTypes /\ ~FromHost(last'.user))
       =>
       /\ rooms' = rooms
       /\ users' = users
       /\ sent' = <<>>
       /\ tasks' = tasks
      ]_vars

\* C10 witness: an audience member of a room sent toggle_public and nothing
\* happened.
C10_Witness ==
    /\ last.type = "toggle_public"
    /\ last.hosted = None
    /\ last.from \in DOMAIN rooms
    /\ last.user \in rooms[last.from].members
    /\ rooms[last.from].host_id # last.user
    /\ rooms[last.from].host_id \in rooms[last.from].members
    /\ sent = <<>>

(* ---------------------- claims: queue, chat, fan-out ------------------- *)
\* played* playing? (ready|pending|analyzing)*
ShapeOK(queue) ==
    \E p \in 0..Len(queue) :
        /\ \A i \in 1..p : queue[i].status = "played"
        /\ \A i \in (p + 1)..Len(queue) :
              \/ queue[i].status \in {"ready", "pending", "analyzing"}
              \/ i = p + 1 /\ queue[i].status = "playing"

\* C11: in every room the statuses of the queue read played* playing?
\* (ready|pending|analyzing)*: the played items first, then at most one
\* playing item, then the waiting ones.
C11_QueueShape ==
    \A r \in DOMAIN rooms : ShapeOK(rooms[r].queue)

\* the positions of the items of the queue that are not played
Active(queue) == {i \in 1..Len(queue) : queue[i].status # "played"}

\* the queue up through its third item that is not played (through the last
\* one that is not played when there are fewer than three)
PriorityPrefix(queue) ==
    LET top == {i \in Active(queue) :
                   Cardinality({j \in Active(queue) : j < i}) < PriorityCount}
    IN SubSeq(queue, 1, IF top = {} THEN 0 ELSE CHOOSE i \in top : \A j \in top : j <= i)

\* C12: a queue_reorder of the host leaves the queue up through its third
\* non-played item as it was, whatever ids the order names.
C12_ReorderKeepsPriority ==
    [][(last'.type = "queue_reorder" /\ FromHost(last'.user))
          => LET r == Targets(last'.user)
             IN PriorityPrefix(rooms'[r].queue) = PriorityPrefix(rooms[r].queue)
      ]_vars

\* positions of the envelopes of type ty the handler just run sent to user m
Got(m, ty) ==
    {i \in 1..Len(sent') : sent'[i].to = m /\ sent'[i].env.type = ty}

\* C13: queue_advance of the host turns the first playing item played and the
\* first ready or pending item playing, every other item untouched; after a
\* promotion each member is sent one queue_play_next with the promoted item
\* and then one queue_update, without a promotion only the queue_update.
C13_AdvancePromotes ==
    [][(last'.type = "queue_advance" /\ FromHost(last'.user))
       => LET r == Targets(last'.user)
              q == rooms[r].queue
              qn == rooms'[r].queue
              playing == {i \in 1..Len(q) : q[i].status = "playing"}
              waiting == {i \in 1..Len(q) : q[i].status \in {"ready", "pending"}}
              cur == IF playing = {} THEN 0 ELSE MinOf(playing)
              nxt == IF waiting = {} THEN 0 ELSE MinOf(waiting)
          IN /\ Len(qn) = Len(q)
             /\ \A i \in 1..Len(q) :
                   qn[i] = [q[i] EXCEPT !.status = IF i = cur THEN "played"
                                                   ELSE IF i = nxt THEN "playing"
                                                   ELSE @]
             /\ \A m \in rooms[r].members \cap Connected :
                   /\ Cardinality(Got(m, "queue_update")) = 1
                   /\ \A i \in Got(m, "queue_update") :
                         sent'[i].env.queue = qn
                   /\ Cardinality(Got(m, "queue_play_next")) = IF nxt = 0 THEN 0 ELSE 1
                   /\ \A i \in Got(m, "queue_play_next") :
                         /\ sent'[i].env.item = qn[nxt]
                         /\ \A j \in Got(m, "queue_update") : i < j
             /\ \A i \in 1..Len(sent') :
                   sent'[i].env.type \in {"queue_play_next", "queue_update"}
                       => sent'[i].to \in rooms[r].members
      ]_vars

\* C13 witness: an advance retired the playing item and promoted the next
\* one, and the audience member was told which.
C13_Witness ==
    /\ last.type = "queue_advance"
    /\ last.hosted \in DOMAIN rooms
    /\ \E i \in 1..Len(rooms[last.hosted].queue) :
          rooms[last.hosted].queue[i].status = "played"
    /\ \E i \in SentOfType("queue_play_next") :
          /\ sent[i].to # last.user
          /\ sent[i].env.item.status = "playing"
          /\ sent[i].env.item \in
                {rooms[last.hosted].queue[k] : k \in 1..Len(rooms[last.hosted].queue)}

\* C14: no room's chat history is ever longer than 200 messages, system
\* messages of joins and leaves included, and a history that is at the cap
\* and gets one more message is cut to at most 100: the new message behind
\* the most recent ones before it, in their order.
C14_HistoryCapped ==
    [][\A r \in DOMAIN rooms' :
          LET new == rooms'[r].messages IN
          /\ Len(new) <= MaxMessages
          /\ (/\ r \in DOMAIN rooms
              /\ new # rooms[r].messages
              /\ Len(rooms[r].messages) = MaxMessages)
             => /\ Len(new) <= KeepMessages
                /\ Len(new) > 0
                /\ SubSeq(new, 1, Len(new) - 1) =
                      SubSeq(rooms[r].messages, MaxMessages - Len(new) + 2, MaxMessages)
      ]_vars

\* the pending suggestions of user u in a room
PendingOf(room, u) ==
    {i \in 1..Len(room.suggestions) :
        room.suggestions[i].user_id = u /\ room.suggestions[i].status = "pending"}

\* C15: no user ever has two pending suggestions in a room, and a
\* suggest_song of a user who has one pending in the room they are in is
\* answered with one error and changes no room.
C15_OnePendingSuggestion ==
    [][/\ \A r \in DOMAIN rooms' : \A u \in UserIds :
             Cardinality(PendingOf(rooms'[r], u)) <= 1
       /\ (/\ last'.type = "suggest_song"
           /\ last'.from \in DOMAIN rooms
           /\ PendingOf(rooms[last'.from], last'.user) # {})
          => /\ rooms' = rooms
             /\ Len(sent') = 1
             /\ sent'[1].to = last'.user
             /\ sent'[1].env.type = "error"
      ]_vars

\* C15 witness: a user with a pending suggestion sent another and was
\* refused.
C15_Witness ==
    /\ last.type = "suggest_song"
    /\ last.from \in DOMAIN rooms
    /\ PendingOf(rooms[last.from], last.user) # {}
    /\ Len(sent) = 1
    /\ sent[1].env.type = "error"
    /\ sent[1].env.message = "You already have a pending suggestion"

\* C16: an accepted suggest_song sends the host of the room one
\* new_suggestion with the suggestion, the sender suggestion_sent, and nobody
\* else a new_suggestion, wherever the host is.
C16_HostNotified ==
    [][(/\ last'.type = "suggest_song"
        /\ last'.from \in DOMAIN rooms
        /\ Len(rooms'[last'.from].suggestions) = Len(rooms[last'.from].suggestions) + 1)
       => LET r == last'.from
              host == rooms[r].host_id
              sg == rooms'[r].suggestions[Len(rooms'[r].suggestions)]
          IN /\ Cardinality(Got(host, "new_suggestion")) = 1
             /\ \A i \in Got(host, "new_suggestion") : sent'[i].env.suggestion = sg
             /\ Cardinality(Got(last'.user, "suggestion_sent")) = 1
             /\ \A i \in 1..Len(sent') :
                   sent'[i].env.type = "new_suggestion" => sent'[i].to = host
      ]_vars

\* What respond_suggestion of the host does to the pending suggestion it
\* names: the suggestion is approved or rejected; an approval appends one
\* pending item with the suggestion's title, source and url, added by the
\* suggester, behind the items the queue had; the suggester (when present,
\* which means in the room's members if inRoom, else connected) is sent one
\* suggestion_response with the action; every member is sent one
\* queue_update with the new queue.
Responded(inRoom) ==
    LET u == last'.user
        r == Targets(u)
        act == last'.arg.action
        hits == {i \in 1..Len(rooms[r].suggestions) :
                    /\ rooms[r].suggestions[i].id = last'.arg.id
                    /\ rooms[r].suggestions[i].status = "pending"}
        i == MinOf(hits)
        s == rooms[r].suggestions[i]
        q == rooms[r].queue
        qn == rooms'[r].queue
        present == IF inRoom THEN s.user_id \in rooms[r].members \cap Connected
                   ELSE s.user_id \in Connected
    IN hits # {} =>
       /\ rooms'[r].suggestions =
             [rooms[r].suggestions EXCEPT
                 ![i].status = IF act = "approve" THEN "approved" ELSE "rejected"]
       /\ act = "approve" =>
             /\ Len(qn) = Len(q) + 1
             /\ SubSeq(qn, 1, Len(q)) = q
             /\ qn[Len(qn)].title = s.title
             /\ qn[Len(qn)].source = s.source
             /\ qn[Len(qn)].url = s.url
             /\ qn[Len(qn)].added_by = s.user_id
             /\ qn[Len(qn)].status = "pending"
             /\ \A k \in 1..Len(q) : q[k].id # qn[Len(qn)].id
       /\ act # "approve" => qn = q
       /\ Cardinality(Got(s.user_id, "suggestion_response")) = IF present THEN 1 ELSE 0
       /\ \A k \in Got(s.user_id, "suggestion_response") :
             sent'[k].env.action = act /\ sent'[k].env.suggestionId = s.id
       /\ \A m \in rooms[r].members \cap Connected :
             /\ Cardinality(Got(m, "queue_update")) = 1
             /\ \A k \in Got(m, "queue_update") : sent'[k].env.queue = qn

\* C17 as claimed: respond_suggestion of the host for a pending suggestion
\* approves or rejects it, an approval appends the song at the tail of the
\* queue, the suggester is sent suggestion_response and the members
\* queue_update.
C17_ResponseReachesSuggester ==
    [][(last'.type = "respond_suggestion" /\ FromHost(last'.user))
          => Responded(FALSE)]_vars

\* C17 amended: the same, the suggestion_response being sent when the
\* suggester is still a member of the room and not otherwise.
C17_ResponseReachesMember ==
    [][(last'.type = "respond_suggestion" /\ FromHost(last'.user))
          => Responded(TRUE)]_vars

\* C17 witness: an approval put the suggested song behind two queued items
\* and the suggester was told.
C17_Witness ==
    /\ last.type = "respond_suggestion"
    /\ last.arg.action = "approve"
    /\ last.hosted \in DOMAIN rooms
    /\ LET q == rooms[last.hosted].queue IN
          /\ Len(q) = 3
          /\ q[3].added_by # last.user
          /\ q[1].added_by = last.user
          /\ \E i \in SentOfType("suggestion_response") : sent[i].to = q[3].added_by

\* the ids of the items a pre-download is due for: among the first three
\* non-played items, remote, with a remote URL, not yet served locally
DueForDownload(queue) ==
    {queue[i].id : i \in
        {k \in Active(queue) :
            /\ Cardinality({j \in Active(queue) : j < k}) < PriorityCount
            /\ queue[k].source = "soundcloud"
            /\ queue[k].soundcloud_url # ""
            /\ ~IsLocalUrl(queue[k].url)}}

\* the message just handled is a queue mutation of the host that can change
\* the priority region
ChangesPriority ==
    /\ last'.type \in {"queue_add", "queue_remove", "queue_advance",
                       "respond_suggestion"}
    /\ FromHost(last'.user)
    /\ \/ last'.type \in {"queue_add", "queue_remove", "queue_advance"}
       \/ /\ last'.arg.action = "approve"
          /\ \E i \in 1..Len(rooms[Targets(last'.user)].suggestions) :
                /\ rooms[Targets(last'.user)].suggestions[i].id = last'.arg.id
                /\ rooms[Targets(last'.user)].suggestions[i].status = "pending"

\* C18: queue_add, queue_remove, queue_advance and an approving
\* respond_suggestion schedule a pre-download task for the room, and the task
\* starts a download for every remote, not yet local item among the first
\* three non-played items, whatever its status.
C18_PriorityPredownloaded ==
    [][/\ ChangesPriority => Targets(last'.user) \in tasks'
       /\ (last'.type = "predownload" /\ last'.arg.room \in DOMAIN rooms)
             => DueForDownload(rooms[last'.arg.room].queue) \subseteq last'.arg.started
      ]_vars

\* C19: a failed pre-download marks its item downloadStatus failed, leaves
\* the item's url and the rest of the queue alone, and the queue state is
\* sent to the members again.
C19_FailedDownloadMarked ==
    [][(/\ last'.type = "predownload"
        /\ last'.arg.room \in DOMAIN rooms
        /\ last'.arg.failed # {})
       => LET r == last'.arg.room
              q == rooms[r].queue
              qn == rooms'[r].queue
          IN /\ Len(qn) = Len(q)
             /\ \A i \in 1..Len(q) :
                   /\ q[i].id \in last'.arg.failed
                         => qn[i] = [q[i] EXCEPT !.download_status = "failed"]
                   /\ q[i].id \notin last'.arg.started => qn[i] = q[i]
             /\ \A m \in rooms[r].members \cap Connected :
                   \E k \in Got(m, "queue_update") : sent'[k].env.queue = qn
      ]_vars

\* the envelope type of the event for all members that the message just
\* handled commits, "" if it commits none
EventType ==
    IF last'.type = "chat_message" /\ last'.arg # "" THEN "chat_message"
    ELSE IF last'.type = "set_username" THEN "user_renamed"
    ELSE IF /\ \/ last'.type \in {"toggle_public", "update_now_playing"}
               \/ last'.type = "rename_room" /\ last'.arg # ""
            /\ FromHost(last'.user)
    THEN "room_updated"
    ELSE IF /\ \/ last'.type \in {"queue_add", "queue_remove", "queue_update_item",
                                  "queue_advance", "respond_suggestion"}
               \/ last'.type = "queue_reorder" /\ last'.arg > 0
            /\ FromHost(last'.user)
    THEN "queue_update"
    ELSE ""

\* the room the event is for: the one the sender is in for a chat message
\* or a new name, the one a host-only message is about otherwise
EventRoom ==
    IF last'.type \in {"chat_message", "set_username"} THEN last'.from
    ELSE Targets(last'.user)

\* C20: an event for all members of a room (chat_message, queue_update,
\* room_updated, user_renamed) is sent once to every member of the room
\* whose connection is open, the sender of a chat message included, and to no
\* user who is not a member; when no such event is committed no such
\* envelope is sent.
C20_EachMemberOnce ==
    [][/\ (EventType # "" /\ EventRoom \in DOMAIN rooms)
          => \A m \in Connected :
                Cardinality(Got(m, EventType)) =
                    IF m \in rooms[EventRoom].members THEN 1 ELSE 0
       /\ last'.type \in {"chat_message", "set_username", "toggle_public",
                          "rename_room", "queue_add"}
          => \A i \in 1..Len(sent') :
                sent'[i].env.type \in {"chat_message", "queue_update",
                                       "room_updated", "user_renamed"}
                   => /\ sent'[i].env.type = EventType
                      /\ EventRoom \in DOMAIN rooms
      ]_vars

\* C20 witness: a chat message of an audience member went to the sender and
\* to the host while a connected user outside the room got nothing.
C20_Witness ==
    /\ last.type = "chat_message"
    /\ last.from \in DOMAIN rooms
    /\ rooms[last.from].host_id # last.user
    /\ {sent[i].to : i \in SentOfType("chat_message")} = rooms[last.from].members
    /\ Cardinality(rooms[last.from].members) = 2
    /\ Connected \ rooms[last.from].members # {}

(* ------------- claims: failures, ordering, interleavings -------------- *)
\* the users whose transport takes an envelope when the handler starts
Reachable == Connected \ broken

\* C21: a send that fails, or a transport that is closed, costs only that
\* recipient its envelope.  A chat message still goes to every other member
\* of the room and stays in the history; a toggle still sends public_rooms
\* to every other connected user and flips the flag; the destruction of a
\* hosted room (end_room, or the cleanup of a disconnecting host) still
\* sends room_closed to every other member and removes the room; and the
\* dispatcher of a sender that did not disconnect stays in its loop.
C21_FailedSendIsolated ==
    [][/\ (last'.type = "chat_message" /\ last'.arg # ""
           /\ last'.from \in DOMAIN rooms)
          => /\ \A m \in rooms[last'.from].members \cap Reachable :
                    Got(m, "chat_message") # {}
             /\ LET ms == rooms'[last'.from].messages
                IN /\ ms # <<>>
                   /\ ms[Len(ms)].user_id = last'.user
                   /\ ms[Len(ms)].text = last'.arg
             /\ users'[last'.user].connected
       /\ (last'.type = "toggle_public" /\ FromHost(last'.user))
          => /\ \A m \in Reachable : Got(m, "public_rooms") # {}
             /\ rooms'[Targets(last'.user)].is_public
                   = ~rooms[Targets(last'.user)].is_public
             /\ users'[last'.user].connected
       /\ (last'.type \in {"end_room", "disconnect"}
           /\ last'.hosted \in DOMAIN rooms)
          => /\ \A m \in (rooms[last'.hosted].members \cap Reachable)
                             \ (IF last'.type = "disconnect"
                                THEN {last'.user} ELSE {}) :
                    Got(m, "room_closed") # {}
             /\ last'.hosted \notin DOMAIN rooms'
             /\ last'.type = "end_room"
                   => /\ last'.user \in DOMAIN users'
                      /\ users'[last'.user].connected
      ]_vars

\* C21 witness: a chat message reached a member of the room while the send
\* to another member of the room failed.
C21_Witness ==
    /\ last.type = "chat_message"
    /\ last.from \in DOMAIN rooms
    /\ rooms[last.from].members \cap broken # {}
    /\ \E i \in SentOfType("chat_message") :
          sent[i].to # last.user /\ sent[i].to \in rooms[last.from].members

\* a room was destroyed while the send to one of its members failed and
\* another member was sent room_closed
C21_WitnessDestroy ==
    /\ last.type \in {"end_room", "disconnect"}
    /\ last.hosted # None
    /\ last.hosted \notin DOMAIN rooms
    /\ broken # {}
    /\ \E i \in SentOfType("room_closed") : sent[i].to \notin broken

\* the envelope the audience is sent for the host message just handled
Forwarded ==
    CASE last'.type = "sync_state" ->
           [type |-> "sync_state", currentTime |-> last'.arg.currentTime,
            isPlaying |-> last'.arg.isPlaying,
            playbackSpeed |-> last'.arg.playbackSpeed]
      [] last'.type = "host_action" ->
           [type |-> "host_action", action |-> last'.arg[1],
            payload |-> last'.arg[2]]
      [] last'.type = "set_audio_source" ->
           [type |-> "audio_source", audioSource |-> last'.arg.audioSource,
            aiParams |-> last'.arg.aiParams]

\* C22: while the host's dispatcher handles a sync_state, host_action or
\* set_audio_source of the host of room R (it takes the next message only
\* after the broadcast returned), the envelopes sent are copies of the
\* envelope of that message and of no earlier one, every recipient is a
\* non-host member of R at that moment and gets one copy at most, the
\* members of the audience with an open connection get one, and the host
\* gets none; a message that is not from the host is forwarded to nobody.
C22_HostEnvelopesInOrder ==
    [][last'.type \in {"sync_state", "host_action", "set_audio_source"}
         => IF FromHost(last'.user)
            THEN LET R == Targets(last'.user) IN
                 /\ \A i \in 1..Len(sent') :
                       /\ sent'[i].env = Forwarded
                       /\ sent'[i].to \in rooms[R].members \ {rooms[R].host_id}
                       /\ \A j \in 1..Len(sent') : sent'[j].to = sent'[i].to => j = i
                 /\ \A m \in (rooms[R].members \cap Connected) \ {rooms[R].host_id} :
                       \E i \in 1..Len(sent') : sent'[i].to = m
            ELSE sent' = <<>>
      ]_vars

\* C22 witness: an audience member was sent the host_action the host just
\* sent, the host being a member of the room too.
C22_Witness ==
    /\ last.type = "host_action"
    /\ last.hosted \in DOMAIN rooms
    /\ last.user \in rooms[last.hosted].members
    /\ \E i \in 1..Len(sent) :
          /\ sent[i].to # last.user
          /\ sent[i].env.type = "host_action"
          /\ sent[i].env.action = last.arg[1]

\* the positions in the log of the user_joined envelopes about user b, and
\* of the chat_message envelopes with message c, that were sent to user m
JoinedAt(m, b) ==
    {p \in 1..Len(sent) : /\ sent[p].to = m
                          /\ sent[p].env.type = "user_joined"
                          /\ sent[p].env.userId = b}

ChatAt(m, c) ==
    {q \in 1..Len(sent) : /\ sent[q].to = m
                          /\ sent[q].env.type = "chat_message"
                          /\ sent[q].env.message = c}

\* C23: when the history of a room holds the system message of b's join
\* before a chat message (none equal to it was committed before the join),
\* every user who was sent both user_joined for b and that chat message was
\* sent user_joined first, however the handlers interleaved at their
\* awaits.
C23_CommitOrderKept ==
    \A r \in DOMAIN rooms :
        LET ms == rooms[r].messages IN
        \A i \in 1..Len(ms), j \in 1..Len(ms) :
            (/\ i < j
             /\ ms[i].is_system /\ ms[i].text = "joined"
             /\ ~ms[j].is_system
             /\ \A k \in 1..i : ms[k] # ms[j])
            => \A m \in DOMAIN users :
                   \A p \in JoinedAt(m, ms[i].about), q \in ChatAt(m, ms[j]) :
                       p < q

\* C24: once no handler is suspended, no connected user has a room_id that
\* names a room absent from the registry, and every connected user whose
\* room_id names a room is among its members: a join that met the
\* destruction of its target was refused, or ended with room_closed and a
\* cleared room_id.
C24_DestructionAtomic ==
    pc = <<>> =>
        \A u \in Connected :
            users[u].room_id # None =>
                /\ users[u].room_id \in DOMAIN rooms
                /\ u \in rooms[users[u].room_id].members

\* C25: the host_id of every room of the registry names a user of the user
\* registry, in every state between two handler segments, those of the
\* cleanup of a disconnecting host included.
C25_HostInRegistry ==
    \A r \in DOMAIN rooms :
        /\ rooms[r].host_id \in DOMAIN users
        /\ users[rooms[r].host_id].connected

\* C25 witness: the host's socket is closed and its cleanup is suspended in
\* the loop of _destroy_hosted_room, the room still in the registry.
C25_Witness ==
    \E u \in DOMAIN pc :
        /\ pc[u].at = "_destroy_hosted_room: loop"
        /\ pc[u].then = "finally: pop"
        /\ u \in broken
        /\ pc[u].room \in DOMAIN rooms
        /\ rooms[pc[u].room].host_id = u

\* the cleanup of a host ended: the room left the registry with the frame
\* of the cleanup still to run users.pop, and then the record went
C25_WitnessPopped ==
    /\ last.type = "resume"
    /\ last.arg = "finally: pop"
    /\ last.user \notin Connected
    /\ last.hosted = None

(* -------------------- claims: visits and round trips ------------------ *)
\* the sender of the message just handled was in room R2 of the registry,
\* as a member, while hosting another room R1 of the registry
WasVisiting ==
    /\ last'.hosted \in DOMAIN rooms
    /\ last'.from \in DOMAIN rooms
    /\ last'.from # last'.hosted
    /\ last'.user \in rooms[last'.from].members

\* C26: go_to_menu of a host who is a member of a room R2 other than the
\* hosted room R1 leaves R2 first: the user is out of R2.members and the
\* members left in R2 are sent user_left; R1.host_visiting is true, the
\* user is not in R1.members, room_id is None and went_to_menu carries the
\* summary of R1.
C26_MenuLeavesVisitedRoom ==
    [][(last'.type = "go_to_menu" /\ WasVisiting)
         => LET u == last'.user
                R1 == last'.hosted
                R2 == last'.from
            IN /\ R2 \in DOMAIN rooms' => u \notin rooms'[R2].members
               /\ \A m \in (rooms[R2].members \cap Connected) \ {u} :
                     Got(m, "user_left") # {}
               /\ rooms'[R1].host_visiting
               /\ u \notin rooms'[R1].members
               /\ users'[u].room_id = None
               /\ \E i \in 1..Len(sent') :
                     /\ sent'[i].to = u
                     /\ sent'[i].env.type = "went_to_menu"
                     /\ sent'[i].env.hostedRoom
                           = _hosted_room_summary(R1, rooms'[R1])
      ]_vars

\* the registries a handler leaves when it returns in world w
StateAfter(w) ==
    [rooms |-> [r \in w.reg |-> w.objs[r]],
     users |-> [u \in {x \in DOMAIN w.users :
                         \/ w.users[x].connected
                         \/ \E r \in w.reg : x \in w.objs[r].members}
                  |-> w.users[u]],
     files |-> w.files]

\* C27: leave_room of a user who is in room R2 while hosting another room
\* R1 leaves the users, the rooms and the uploads as return_to_room would
\* have left them from the same state: the user is out of R2, R1 is not
\* host_visiting, the user is in R1.members with is_host set and room_id =
\* hosted_room_id = R1, and the user is sent returned_to_room with the full
\* snapshot, the members and the recent messages of R1.
C27_LeaveIsReturn ==
    [][(last'.type = "leave_room" /\ WasVisiting)
         => LET u == last'.user
                R1 == last'.hosted
                R2 == last'.from
                ret == StateAfter(on_return_to_room(World(None), u))
            IN /\ rooms' = ret.rooms
               /\ users' = ret.users
               /\ files' = ret.files
               /\ u \notin rooms'[R2].members
               /\ ~rooms'[R1].host_visiting
               /\ u \in rooms'[R1].members
               /\ users'[u].is_host
               /\ users'[u].room_id = R1
               /\ users'[u].hosted_room_id = R1
               /\ \E i \in 1..Len(sent') :
                     /\ sent'[i].to = u
                     /\ sent'[i].env.type = "returned_to_room"
                     /\ sent'[i].env.room = _room_full(R1, rooms'[R1])
                     /\ sent'[i].env.members
                           = _member_list(World(None)', rooms'[R1])
                     /\ sent'[i].env.messages = Recent(rooms'[R1].messages)
      ]_vars

\* C27 witness: a host who was visiting a room that others are in sent
\* leave_room and is back in the hosted room.
C27_Witness ==
    /\ last.type = "leave_room"
    /\ last.hosted \in DOMAIN rooms
    /\ last.from \in DOMAIN rooms
    /\ last.from # last.hosted
    /\ users[last.user].room_id = last.hosted
    /\ SentOfType("user_left") # {}
    /\ \E i \in SentOfType("returned_to_room") : sent[i].to = last.user

\* C28: toggle_public of the host of room R flips R.is_public and sends
\* every connected user one public_rooms envelope with the new listing;
\* the same message handled again right after leaves R.is_public and the
\* public listing as they were before the first.
C28_ToggleTwiceRestores ==
    [][(last'.type = "toggle_public" /\ FromHost(last'.user))
         => LET u == last'.user
                R == Targets(u)
                again == on_toggle_public(World(None)', u)
            IN /\ rooms'[R].is_public = ~rooms[R].is_public
               /\ \A m \in Connected :
                     /\ Cardinality(Got(m, "public_rooms")) = 1
                     /\ \A i \in Got(m, "public_rooms") :
                           sent'[i].env.rooms = PublicRooms(rooms', DOMAIN rooms')
               /\ again.reg = DOMAIN rooms
               /\ again.objs[R].is_public = rooms[R].is_public
               /\ PublicRooms(again.objs, again.reg)
                     = PublicRooms(rooms, DOMAIN rooms)
      ]_vars

\* C28 witness: the host of a public stage with an audience made it
\* private, and the listing sent to the audience no longer has it.
C28_Witness ==
    /\ last.type = "toggle_public"
    /\ last.hosted \in DOMAIN rooms
    /\ rooms[last.hosted].host_id = last.user
    /\ ~rooms[last.hosted].is_public
    /\ rooms[last.hosted].members \ {last.user} # {}
    /\ \E i \in SentOfType("public_rooms") :
          /\ sent[i].to # last.user
          /\ last.hosted \notin DOMAIN sent[i].env.rooms

\* the room registry as the claim compares it: the rooms, and the host,
\* the members and the flags of each
RegistryView(objs, reg) ==
    [r \in reg |-> [host_id |-> objs[r].host_id, members |-> objs[r].members,
                    is_public |-> objs[r].is_public,
                    host_visiting |-> objs[r].host_visiting]]

\* the registry after the sender of the create_room just handled sends
\* end_room next
CreatedThenEnded ==
    LET w == on_end_room(World(None)', last'.user)
    IN RegistryView(w.objs, w.reg)

\* C29 as claimed: create_room directly followed by end_room leaves the
\* room registry as it was before the create_room, for every connected
\* user and every registry.
C29_CreateEndRestores ==
    [][last'.type = "create_room"
         => CreatedThenEnded = RegistryView(rooms, DOMAIN rooms)]_vars

\* C29 amended: the same for a user who, when sending create_room, hosts no
\* room of the registry and has no room_id naming a room of the registry.
C29_CreateEndRestoresFromMenu ==
    [][(/\ last'.type = "create_room"
        /\ last'.hosted \notin DOMAIN rooms
        /\ last'.from \notin DOMAIN rooms)
         => CreatedThenEnded = RegistryView(rooms, DOMAIN rooms)]_vars

\* C29 witness: a user on the menu created a room while another stage with
\* an audience was in the registry.
C29_Witness ==
    /\ last.type = "create_room"
    /\ last.hosted = None
    /\ last.from = None
    /\ last.arg \in DOMAIN rooms
    /\ \E r \in DOMAIN rooms \ {last.arg} : Cardinality(rooms[r].members) > 1

(* ------------------------- claims: reordering ------------------------- *)
\* the non-played items of a queue, and those after its priority region
NotPlayed(queue) == SelectSeq(queue, LAMBDA x : x.status # "played")

LowPart(queue) ==
    SubSeq(NotPlayed(queue), PriorityCount + 1, Len(NotPlayed(queue)))

\* the ids of a request that name an item of ids, each at its first mention
RECURSIVE FirstMentions(_, _)
FirstMentions(order, ids) ==
    IF order = <<>> THEN <<>>
    ELSE IF Head(order) \in ids
         THEN <<Head(order)>> \o FirstMentions(Tail(order), ids \ {Head(order)})
         ELSE FirstMentions(Tail(order), ids)

\* C30: queue_reorder of the host with a non-empty id list (the handler
\* stores Reordered(queue, order)) leaves a
\* permutation of the queue (the same items, none twice); the played items
\* and the priority region keep their items and order; the items after the
\* priority region come in the order of the request, each id counted at
\* its first mention and only if it names one of them, and those the
\* request does not name follow in their previous order.
C30_ReorderPermutesSuffix ==
    \A r \in DOMAIN rooms :
        \A order \in OrderInputs \ {<<>>} :
            LET q == rooms[r].queue
                q2 == Reordered(q, order)
                low == LowPart(q)
                lowIds == {low[i].id : i \in 1..Len(low)}
                want == FirstMentions(order, lowIds)
                named == [i \in 1..Len(want) |->
                             CHOOSE x \in {low[k] : k \in 1..Len(low)} :
                                 x.id = want[i]]
                others == SelectSeq(low, LAMBDA x :
                              \A i \in 1..Len(order) : order[i] # x.id)
            IN /\ Len(q2) = Len(q)
               /\ {q2[i] : i \in 1..Len(q2)} = {q[i] : i \in 1..Len(q)}
               /\ Cardinality({q2[i].id : i \in 1..Len(q2)}) = Len(q2)
               /\ SelectSeq(q2, LAMBDA x : x.status = "played")
                     = SelectSeq(q, LAMBDA x : x.status = "played")
               /\ SubSeq(NotPlayed(q2), 1, Len(NotPlayed(q)) - Len(low))
                     = SubSeq(NotPlayed(q), 1, Len(NotPlayed(q)) - Len(low))
               /\ LowPart(q2) = named \o others

\* C30 witness: a reorder naming two ids was handled and the two items
\* after the priority region are no longer in the order they were added.
C30_Witness ==
    /\ last.type = "queue_reorder"
    /\ last.arg = 2
    /\ last.hosted \in DOMAIN rooms
    /\ rooms[last.hosted].host_id = last.user
    /\ LET low == LowPart(rooms[last.hosted].queue)
       IN Len(low) >= 2 /\ low[1].id > low[2].id

(* --------------------- claims: queue and playback --------------------- *)
\* C31: a queue_advance of the host on a queue that reads played* playing?
\* (ready|pending|analyzing)* leaves a queue that reads so, wherever the
\* analyzing items are and whether or not an item is playing.
C31_AdvanceKeepsShape ==
    [][(/\ last'.type = "queue_advance"
        /\ FromHost(last'.user)
        /\ ShapeOK(rooms[Targets(last'.user)].queue))
         => ShapeOK(rooms'[Targets(last'.user)].queue)]_vars

\* C32: queue_remove of the host takes out of the queue the item with the
\* given id unless it is playing: a playing item, and every item with
\* another id, stays, the items that stay keep their order, and every
\* connected member of the room is sent one queue_update with the new queue,
\* whether or not an item was removed.
C32_RemoveSparesPlaying ==
    [][(last'.type = "queue_remove" /\ FromHost(last'.user))
         => LET R == Targets(last'.user)
                q == rooms[R].queue
            IN /\ rooms'[R].queue
                    = SelectSeq(q, LAMBDA x : x.id # last'.arg \/ x.status = "playing")
               /\ \A i \in 1..Len(q) :
                     q[i].status = "playing"
                        => \E j \in 1..Len(rooms'[R].queue) : rooms'[R].queue[j] = q[i]
               /\ \A m \in rooms[R].members \cap Connected :
                     /\ Cardinality(Got(m, "queue_update")) = 1
                     /\ \A i \in Got(m, "queue_update") :
                           sent'[i].env.queue = _queue_state(rooms'[R]).queue
      ]_vars

\* C32 witness: the host asked to remove the playing item, the queue is as
\* it was and the audience was sent queue_update.
C32_Witness ==
    /\ last.type = "queue_remove"
    /\ last.hosted \in DOMAIN rooms
    /\ rooms[last.hosted].host_id = last.user
    /\ \E i \in 1..Len(rooms[last.hosted].queue) :
          /\ rooms[last.hosted].queue[i].id = last.arg
          /\ rooms[last.hosted].queue[i].status = "playing"
    /\ \E i \in SentOfType("queue_update") : sent[i].to # last.user

\* C33: after a host_action seek, play_pause or speed_change of the host
\* of room R, R.last_sync is set and its currentTime, isPlaying or
\* playbackSpeed is the payload's value, whether or not a snapshot was
\* stored before.
C33_ActionStoredInLastSync ==
    [][(/\ last'.type = "host_action"
        /\ FromHost(last'.user)
        /\ last'.arg[1] \in {"seek", "play_pause", "speed_change"})
         => LET ls == rooms'[Targets(last'.user)].last_sync
            IN /\ ls.set
               /\ last'.arg[1] = "seek" => ls.currentTime = last'.arg[2]
               /\ last'.arg[1] = "play_pause" => ls.isPlaying = last'.arg[2]
               /\ last'.arg[1] = "speed_change" => ls.playbackSpeed = last'.arg[2]
      ]_vars

\* C34: set_audio_source of the host of room R stores the given source and
\* AI parameters, sets last_sync to currentTime 0, not playing, speed 1,
\* clears host_visualizer_state and changes nothing else of the room
\* (queue, suggestions, members, messages, is_public and the rest) and
\* nothing of any user or other room; every connected member but the host
\* is sent one audio_source envelope with the two values and the host is
\* sent nothing.
C34_SetAudioSourceFrame ==
    [][(last'.type = "set_audio_source" /\ FromHost(last'.user))
         => LET R == Targets(last'.user)
                host == rooms[R].host_id
            IN /\ rooms' = [rooms EXCEPT
                              ![R].audio_source = last'.arg.audioSource,
                              ![R].ai_params = last'.arg.aiParams,
                              ![R].last_sync = [set |-> TRUE, currentTime |-> 0,
                                                isPlaying |-> FALSE,
                                                playbackSpeed |-> 1],
                              ![R].host_visualizer_state = NoVis]
               /\ users' = users
               /\ \A m \in (rooms[R].members \cap Connected) \ {host} :
                     Cardinality(Got(m, "audio_source")) = 1
               /\ \A i \in 1..Len(sent') :
                     /\ sent'[i].to \in rooms[R].members \ {host}
                     /\ sent'[i].env = [type |-> "audio_source",
                                        audioSource |-> last'.arg.audioSource,
                                        aiParams |-> last'.arg.aiParams]
      ]_vars

\* C34 witness: the host of a stage with a queued item set a source, the
\* snapshot is zeroed and the audience was sent audio_source.
C34_Witness ==
    /\ last.type = "set_audio_source"
    /\ last.hosted \in DOMAIN rooms
    /\ rooms[last.hosted].host_id = last.user
    /\ rooms[last.hosted].audio_source.type # "none"
    /\ rooms[last.hosted].queue # <<>>
    /\ rooms[last.hosted].last_sync.set
    /\ \E i \in SentOfType("audio_source") : sent[i].to # last.user

(* ------------------- claims: registries and listings ------------------ *)
\* C35: a connected user who is among the members of a room of the
\* registry has that room as room_id; so no connected user is among the
\* members of two rooms.
C35_MemberIsInRoom ==
    \A u \in Connected :
        \A r \in DOMAIN rooms :
            u \in rooms[r].members => users[u].room_id = r


\* C36: a connected user's hosted_room_id, when set, names a room of the
\* registry whose host is that user, and no two rooms of the registry have
\* the same host.
C36_HostedRoomRegistered ==
    /\ \A u \in Connected :
           users[u].hosted_room_id # None =>
               /\ users[u].hosted_room_id \in DOMAIN rooms
               /\ rooms[users[u].hosted_room_id].host_id = u
    /\ \A r1, r2 \in DOMAIN rooms :
           rooms[r1].host_id = rooms[r2].host_id => r1 = r2


\* C37: in a public_rooms envelope computed from the state the handler
\* leaves, the audienceCount of every listed room is the number of members
\* of the room other than its host.
C37_AudienceCountExcludesHost ==
    \A i \in DOMAIN sent :
        (sent[i].env.type = "public_rooms"
            /\ sent[i].env.rooms = list_public_rooms) =>
            \A r \in DOMAIN sent[i].env.rooms :
                sent[i].env.rooms[r].audienceCount =
                    Cardinality(rooms[r].members \ {rooms[r].host_id})


\* The listings an envelope sequence carries to user u, oldest first.
Listings(s, u) ==
    LET own == SelectSeq(s, LAMBDA m :
                   m.to = u /\ m.env.type \in {"connected", "public_rooms"})
    IN [i \in DOMAIN own |->
           IF own[i].env.type = "connected" THEN own[i].env.publicRooms
           ELSE own[i].env.rooms]

\* C38: a handler that changes the public listing sends every connected
\* user a listing, and the last listing a handler sends a connected user is
\* the listing of the state the handler leaves.
C38_ListingChangeBroadcast ==
    [][\A u \in Connected' :
           LET got == Listings(sent', u)
           IN /\ list_public_rooms' # list_public_rooms => got # <<>>
              /\ got # <<>> => got[Len(got)] = list_public_rooms']_vars


C38_Witness ==
    /\ last.type = "leave_room"
    /\ DOMAIN list_public_rooms # {}
    /\ \E u \in Connected \ {last.user} :
           /\ users[u].room_id # None
           /\ Listings(sent, u) # <<>>


\* C39: a go_to_menu or leave_room from a user who hosts no room and is in a
\* room sends that user exactly one left_room envelope.
C39_LeftRoomOnce ==
    (last.type \in {"go_to_menu", "leave_room"}
        /\ last.hosted = None /\ last.from # None) =>
        Cardinality({i \in DOMAIN sent :
                        /\ sent[i].to = last.user
                        /\ sent[i].env.type = "left_room"}) = 1

=============================================================================
